---------------------------- MODULE Spec2Model ----------------------------
(***************************************************************************)
(* Model of Rust-Buddy's synchronisation and run-orchestration core        *)
(* (src/ais/asst.rs as bundled in                                          *)
(* src/buddy/.buddy/files/buddy-01-source-code-bundle-asst_...rs).         *)
(*                                                                         *)
(* The remote service (assistants, account files, assistant-file           *)
(* attachments, threads, runs) is the state.  Each function of asst.rs is  *)
(* an operator from (remote state, inputs) to (remote state, log of the    *)
(* remote calls it issued, result); each action applies one function as a  *)
(* whole.  Any remote call may fail.  Which calls fail is an input, fails:  *)
(* fails.fatal names one call kind that fails ("none": none), fails.del    *)
(* the file ids whose oa_files.delete fails, fails.detach whether the      *)
(* attachment delete fails.  A delete whose target does not exist always   *)
(* fails (the service's 404).                                              *)
(*                                                                         *)
(* run_thread_msg suspends in its loop, so it is taken one iteration at a  *)
(* time: RunThreadMsg attaches the message and creates the run, Poll is    *)
(* one retrieval with the match on its status, Sleep the pause between two *)
(* iterations.  The service's run is the sequence of statuses its          *)
(* retrievals show; writes to the terminal are taken to succeed.           *)
(***************************************************************************)
EXTENDS Naturals, Integers, Sequences, FiniteSets, TLC

\* ------------------------------------------------------------------ bounds

\* Server-assigned ids are drawn from counters; the counters are capped.
\* Spec (assistants with their files) creates at most MaxAsstId assistants and
\* MaxFileId files; SpecPaged (assistants only, more of them than one page
\* holds) creates at most MaxPagedAsstId assistants.
MaxAsstId == 2
MaxFileId == 2
MaxPagedAsstId == 4

\* Assistant ids of the sessions of SpecFrame: two projects, one recreated.
MaxFrameAsstId == 3

\* The page size of DEFAULT_QUERY ("limit", "100"), scaled down so that a
\* listing longer than one page is within the bounds of the model.
PageLimit == 2

\* SpecRun: a run is observed QUEUED or IN_PROGRESS at most MaxWaits times
\* before its last status shows, and a run whose last status is one of those
\* two is polled MaxPolls times.
MaxWaits == 2
MaxPolls == 4

\* SpecConv and SpecSession create at most MaxThreadId threads.
MaxThreadId == 2

\* SpecBundle: a source file holds at most MaxBytes bytes.
MaxBytes == 2

\* SpecMsg: a thread holds at most MaxThreadLen messages.
MaxThreadLen == 2

\* ------------------------------------------------------------- value sets

NoId == 0

\* POLLING_DURATION_MS
POLLING_DURATION_MS == 500

\* RunStatus, by its name on the wire
Statuses == {"queued", "in_progress", "requires_action", "cancelling",
             "cancelled", "failed", "completed", "expired"}

\* the messages the user types, each one once
Msgs == {"hi"}

\* MessageContent: a text block or an image file block
TextBlock(value) == [type |-> "text", value |-> value]

ImageBlock == [type |-> "image_file", value |-> "file-img"]

\* What the assistant posts on the thread when its run completes: nothing, a
\* message without content, or a message of one or two blocks.
NoReply == [post |-> FALSE, content |-> <<>>]

Contents == {<<>>, <<TextBlock("hello")>>, <<ImageBlock>>,
             <<TextBlock("see"), ImageBlock>>, <<ImageBlock, TextBlock("seen")>>}

Replies == {NoReply} \cup {[post |-> TRUE, content |-> c] : c \in Contents}

\* no run on the thread
NoRun == [script |-> <<>>, reply |-> NoReply]

\* .buddy/conv.json: not there, there but not the JSON of a Conv, or the JSON
\* of Conv {thread_id}
NoConvFile == [kind |-> "absent", thread_id |-> NoId]

CorruptConvFile == [kind |-> "corrupt", thread_id |-> NoId]

ConvJson(thread_id) == [kind |-> "json", thread_id |-> thread_id]

\* A path: its directory, and the stem and the extension of its file name.
Path(dir, stem, ext) == [dir |-> dir, stem |-> stem, ext |-> ext]

\* file.to_string_lossy()
PathStr(p) == p.dir \o "/" \o p.stem \o "." \o p.ext

\* the hidden directory of the bundles, <dir>/.buddy/files
DataFilesDir == "buddy/.buddy/files"

\* The id of an assistant as the service spells it.
AsstIdStr(id) == "asst_" \o ToString(id)

\* format!("{}-{}-bundle-{}.{}", name, bundle_name, asst_id, dst_ext) under
\* data_files_dir
BundleFile(name, bundle_name, id, dst_ext) ==
    Path(DataFilesDir, name \o "-" \o bundle_name \o "-bundle-" \o AsstIdStr(id), dst_ext)

\* the source files of the project, and one that is not there
SrcMain == Path("src", "main", "rs")

DocNotes == Path("docs", "notes", "md")

SrcGone == Path("src", "gone", "rs")

\* the bytes of a file: a letter, a carriage return, a line feed
Bytes == {"a", "CR", "LF"}

\* no regular file at all
NoFiles == [p \in {} |-> <<>>]

\* config.name of the sessions of Spec: one project, recreated at will
Names == {"buddy-01"}

\* config.name of the sessions of SpecPaged (one buddy.toml per project
\* directory): enough names to fill more than one page of assistants
PagedNames == {"buddy-01", "buddy-02", "buddy-03"}

\* config.name of the sessions of SpecFrame: two projects on one account
FrameNames == {"buddy-01", "buddy-02"}

\* config.model
Models == {"gpt-4"}

\* the bundle names of a config
BundleNames == {"src", "docs", "lib", "toml"}

\* what the user types at the prompt: the commands and a question
Inputs == {"/q", "/r", "/ra", "/ri", "/rf", "/rc"} \cup Msgs

\* base names of the local files handed to upload_file_by_name
FileNames == {"notes.md", "main.rs"}

VARIABLES
    assts,      \* remote: live assistants, newest first:
                \*   [id, name, model, files], files = attached file ids, newest first
    files,      \* remote: live account files, newest first: [id, filename]
    nextAsst,   \* remote: the id the next created assistant gets
    nextFile,   \* remote: the id the next uploaded file gets
    asst_id,    \* Buddy.asst_id: the assistant resolved by the session (NoId: none)
    calls,      \* the remote calls the last operation issued, in order
    ret,        \* the last operation's arguments and result
    thread,     \* remote: the messages of the conversation's thread, newest
                \*   first: [role, content], content a sequence of blocks
    run,        \* remote: the run of the thread: script, the statuses its next
                \*   retrievals show (the last one for good), and reply, what
                \*   the assistant posts when it completes
    pc,         \* where run_thread_msg stands: "idle", "poll", "sleep", "done"
    conv_file,  \* local: .buddy/conv.json: [kind, thread_id], kind "absent",
                \*   "corrupt" (not the JSON of a Conv) or "json"
    threads,    \* remote: the ids of the live threads
    nextThread, \* remote: the id the next created thread gets
    conv,       \* the Conv of the session: its thread_id (NoId: none)
    session,    \* where start stands: "start", "prompt", "chat", "exited"
    disk        \* local: the regular files, path |-> bytes

vars == <<assts, files, nextAsst, nextFile, asst_id, calls, ret, thread, run, pc,
          conv_file, threads, nextThread, conv, session, disk>>

\* The conversation of the project: its record, the remote threads, the Conv.
convVars == <<conv_file, threads, nextThread, conv>>

\* The variables of the project directory and of the session.
projVars == <<convVars, session, disk>>

\* The variables of the conversation.
chatVars == <<thread, run, pc>>

\* The variables of the account.
acctVars == <<assts, files, nextAsst, nextFile, asst_id>>

\* The remote state as one value, threaded through the calls of a function.
Remote == [assts |-> assts, files |-> files, nextAsst |-> nextAsst, nextFile |-> nextFile]

\* ---------------------------------------------------------------- helpers

Min(a, b) == IF a < b THEN a ELSE b

Range(s) == {s[i] : i \in 1..Len(s)}

RECURSIVE Without(_, _)
\* The sequence s without the occurrences of x.
Without(s, x) ==
    IF s = <<>> THEN <<>>
    ELSE (IF Head(s) = x THEN <<>> ELSE <<Head(s)>>) \o Without(Tail(s), x)

RECURSIVE WithoutId(_, _)
\* The sequence of records s without the records of id x.
WithoutId(s, x) ==
    IF s = <<>> THEN <<>>
    ELSE (IF Head(s).id = x THEN <<>> ELSE <<Head(s)>>) \o WithoutId(Tail(s), x)

RECURSIVE WithIdIn(_, _)
\* The records of s whose id is in ids, in the order of s.
WithIdIn(s, ids) ==
    IF s = <<>> THEN <<>>
    ELSE (IF Head(s).id \in ids THEN <<Head(s)>> ELSE <<>>) \o WithIdIn(Tail(s), ids)

RECURSIVE Named(_, _)
\* The records of s whose name is name, in the order of s.
Named(s, name) ==
    IF s = <<>> THEN <<>>
    ELSE (IF Head(s).name = name THEN <<Head(s)>> ELSE <<>>) \o Named(Tail(s), name)

Reverse(s) == [i \in 1..Len(s) |-> s[Len(s) + 1 - i]]

\* A listing with the "limit" query: the first page only.
Page(s) == SubSeq(s, 1, Min(Len(s), PageLimit))

AsstIds(r) == {r.assts[i].id : i \in 1..Len(r.assts)}

FileIds(r) == {r.files[i].id : i \in 1..Len(r.files)}

AsstOf(r, a) == CHOOSE x \in Range(r.assts) : x.id = a

\* One remote call in the log.
Call(c, arg, ok) == [call |-> c, arg |-> arg, ok |-> ok]

\* A function's progress: the remote state so far, the calls so far, and
\* whether the last call succeeded.
Ctx(r, cs, ok) == [r |-> r, calls |-> cs, ok |-> ok]

\* ------------------------------------------------- the remote service calls

\* oa_assts.list(DEFAULT_QUERY)
ListAssts(c, fails) ==
    LET ok == fails.fatal # "list_assts"
    IN  [r |-> c.r, calls |-> Append(c.calls, Call("list_assts", NoId, ok)), ok |-> ok,
         data |-> IF ok THEN Page(c.r.assts) ELSE <<>>]

\* oa_assts.create(CreateAssistantRequest {model, name, ..})
CreateAsst(c, name, model, fails) ==
    LET ok == fails.fatal # "create_asst"
        id == c.r.nextAsst
        r2 == [c.r EXCEPT !.assts = <<[id |-> id, name |-> name, model |-> model,
                                       files |-> <<>>]>> \o @,
                          !.nextAsst = @ + 1]
    IN  [r |-> IF ok THEN r2 ELSE c.r,
         calls |-> Append(c.calls, Call("create_asst", IF ok THEN id ELSE NoId, ok)),
         ok |-> ok, id |-> IF ok THEN id ELSE NoId]

\* oa_assts.delete(asst_id): the assistant goes, and its attachment records with it
DeleteAsst(c, a, fails) ==
    LET ok == a \in AsstIds(c.r) /\ fails.fatal # "delete_asst"
        r2 == [c.r EXCEPT !.assts = WithoutId(@, a)]
    IN  Ctx(IF ok THEN r2 ELSE c.r, Append(c.calls, Call("delete_asst", a, ok)), ok)

\* oa_assts.files(asst_id).list(DEFAULT_QUERY): ids only
ListAsstFiles(c, a, fails) ==
    LET ok == a \in AsstIds(c.r) /\ fails.fatal # "list_asst_files"
    IN  [r |-> c.r, calls |-> Append(c.calls, Call("list_asst_files", a, ok)), ok |-> ok,
         data |-> IF ok THEN Page(AsstOf(c.r, a).files) ELSE <<>>]

\* oa_files.list(): every file of the account, id and filename; the order of
\* the listing is the service's (desc: newest first, else oldest first)
ListFiles(c, desc, fails) ==
    LET ok == fails.fatal # "list_files"
    IN  [r |-> c.r, calls |-> Append(c.calls, Call("list_files", NoId, ok)), ok |-> ok,
         data |-> IF ~ok THEN <<>> ELSE IF desc THEN c.r.files ELSE Reverse(c.r.files)]

\* oa_files.delete(file_id)
DeleteFile(c, f, fails) ==
    LET ok == f \in FileIds(c.r) /\ f \notin fails.del
        r2 == [c.r EXCEPT !.files = WithoutId(@, f)]
    IN  Ctx(IF ok THEN r2 ELSE c.r, Append(c.calls, Call("delete_file", f, ok)), ok)

\* oa_assts.files(asst_id).delete(file_id)
DeleteAsstFile(c, a, f, fails) ==
    LET ok == /\ a \in AsstIds(c.r)
              /\ f \in Range(AsstOf(c.r, a).files)
              /\ ~fails.detach
        r2 == [c.r EXCEPT !.assts =
                 [i \in 1..Len(@) |->
                    IF @[i].id = a
                    THEN [@[i] EXCEPT !.files = Without(@, f)]
                    ELSE @[i]]]
    IN  Ctx(IF ok THEN r2 ELSE c.r, Append(c.calls, Call("delete_asst_file", f, ok)), ok)

\* oa_files.create(CreateFileRequest {file, purpose: "assistants"})
CreateFile(c, filename, fails) ==
    LET ok == fails.fatal # "create_file"
        id == c.r.nextFile
        r2 == [c.r EXCEPT !.files = <<[id |-> id, filename |-> filename]>> \o @,
                          !.nextFile = @ + 1]
    IN  [r |-> IF ok THEN r2 ELSE c.r,
         calls |-> Append(c.calls, Call("create_file", IF ok THEN id ELSE NoId, ok)),
         ok |-> ok, id |-> IF ok THEN id ELSE NoId]

\* oa_assts.files(asst_id).create(CreateAssistantFileRequest {file_id}): the
\* attachment record carries the id of the file it attaches
CreateAsstFile(c, a, f, fails) ==
    LET ok == /\ a \in AsstIds(c.r)
              /\ f \in FileIds(c.r)
              /\ fails.fatal # "create_asst_file"
        r2 == [c.r EXCEPT !.assts =
                 [i \in 1..Len(@) |->
                    IF @[i].id = a
                    THEN [@[i] EXCEPT !.files = <<f>> \o Without(@, f)]
                    ELSE @[i]]]
    IN  [r |-> IF ok THEN r2 ELSE c.r,
         calls |-> Append(c.calls, Call("create_asst_file", f, ok)),
         ok |-> ok, id |-> IF ok THEN f ELSE NoId]

\* ------------------------------------------------------------------- files

RECURSIVE CollectByName(_, _)
\* HashMap::from_iter over (filename, id) pairs: a later pair replaces an
\* earlier one with the same key.
CollectByName(s, m) ==
    IF s = <<>> THEN m
    ELSE CollectByName(Tail(s),
            [n \in DOMAIN m \cup {Head(s).filename} |->
                IF n = Head(s).filename THEN Head(s).id ELSE m[n]])

EmptyMap == [n \in {} |-> NoId]

\* A variant of HashmapFrom that indexes every account file, attached to the
\* assistant or not.
HashmapFrom_Unfiltered(asst_files, l2) ==
    IF ~l2.ok THEN [r |-> l2.r, calls |-> l2.calls, ok |-> FALSE, map |-> EmptyMap]
    ELSE [r |-> l2.r, calls |-> l2.calls, ok |-> TRUE,
          map |-> CollectByName(l2.data, EmptyMap)]

\* get_file_hashmap, after both listings: the account files whose id is
\* attached, by filename
HashmapFrom(asst_files, l2) ==
    IF ~l2.ok THEN [r |-> l2.r, calls |-> l2.calls, ok |-> FALSE, map |-> EmptyMap]
    ELSE [r |-> l2.r, calls |-> l2.calls, ok |-> TRUE,
          map |-> CollectByName(WithIdIn(l2.data, Range(asst_files)), EmptyMap)]

\* get_file_hashmap, after the listing of the attached ids
HashmapOf(l1, desc, fails) ==
    IF ~l1.ok THEN [r |-> l1.r, calls |-> l1.calls, ok |-> FALSE, map |-> EmptyMap]
    ELSE HashmapFrom(l1.data, ListFiles(l1, desc, fails))

\* get_file_hashmap(oac, asst_id): the attached ids (first page), then every
\* account file
get_file_hashmap(c, a, desc, fails) ==
    HashmapOf(ListAsstFiles(c, a, fails), desc, fails)

\* What upload_file_by_name returns: Ok((FileId, bool)) or Err; with it the
\* remote state it leaves, the calls it issued and the old id it found.
UploadOk(c, found, id, uploaded) ==
    [r |-> c.r, calls |-> c.calls, found |-> found,
     res |-> [ok |-> TRUE, id |-> id, uploaded |-> uploaded]]

UploadErr(c, found) ==
    [r |-> c.r, calls |-> c.calls, found |-> found,
     res |-> [ok |-> FALSE, id |-> NoId, uploaded |-> FALSE]]

\* A variant of Attached that tolerates a failed attach as the deletes are
\* tolerated: the uploaded file is returned as uploaded.
Attached_Tolerant(at, file_id) == UploadOk(at, file_id, at.id, TRUE)

\* upload_file_by_name, after the attach: Ok((asst_file_obj.id, true))
Attached(at, file_id) ==
    IF ~at.ok THEN UploadErr(at, file_id) ELSE UploadOk(at, file_id, at.id, TRUE)

\* A variant of AttachFile that returns the uploaded file without attaching it.
AttachFile_NotAttached(up, file_id, a, fails) ==
    IF ~up.ok THEN UploadErr(up, file_id) ELSE UploadOk(up, file_id, up.id, TRUE)

\* upload_file_by_name, after the upload: attach the file to the assistant
AttachFile(up, file_id, a, fails) ==
    IF ~up.ok THEN UploadErr(up, file_id)
    ELSE Attached(CreateAsstFile(up, a, up.id, fails), file_id)

\* A variant of DeleteOld that leaves the old attachment in place.
DeleteOld_FileOnly(c, a, file_id, fails) == DeleteFile(c, file_id, fails)

\* upload_file_by_name, the old file: delete the org file, then the
\* asst_file association; an Err of either is printed and dropped
DeleteOld(c, a, file_id, fails) ==
    DeleteAsstFile(DeleteFile(c, file_id, fails), a, file_id, fails)

\* A variant of UploadFound without the early return: a found file is
\* replaced whether force is set or not.
UploadFound_AlwaysReplaces(hm, file_id, a, file_name, force, fails) ==
    IF file_id # NoId
    THEN AttachFile(CreateFile(DeleteOld(hm, a, file_id, fails), file_name, fails),
                    file_id, a, fails)
    ELSE AttachFile(CreateFile(hm, file_name, fails), file_id, a, fails)

\* upload_file_by_name, after the lookup of the name in the index
UploadFound(hm, file_id, a, file_name, force, fails) ==
    IF ~force /\ file_id # NoId THEN UploadOk(hm, file_id, file_id, FALSE)
    ELSE IF file_id # NoId
         THEN AttachFile(CreateFile(DeleteOld(hm, a, file_id, fails), file_name, fails),
                         file_id, a, fails)
    ELSE AttachFile(CreateFile(hm, file_name, fails), file_id, a, fails)

\* A variant of UploadIndexed that never consults the index.
UploadIndexed_Blind(hm, a, file_name, force, fails) ==
    IF ~hm.ok THEN UploadErr(hm, NoId)
    ELSE UploadFound(hm, NoId, a, file_name, force, fails)

\* upload_file_by_name, after get_file_hashmap: file_id_by_name.remove(file_name)
UploadIndexed(hm, a, file_name, force, fails) ==
    IF ~hm.ok THEN UploadErr(hm, NoId)
    ELSE UploadFound(hm, IF file_name \in DOMAIN hm.map THEN hm.map[file_name] ELSE NoId,
                     a, file_name, force, fails)

\* upload_file_by_name(oac, asst_id, file, force)
upload_file_by_name(r, a, file_name, force, desc, fails) ==
    UploadIndexed(get_file_hashmap(Ctx(r, <<>>, TRUE), a, desc, fails),
                  a, file_name, force, fails)

\* -------------------------------------------------------------- assistants

\* A variant of FirstNamed that takes the last assistant of the page for the
\* named one.
FirstNamed_LastOfPage(l, name) ==
    [r |-> l.r, calls |-> l.calls, ok |-> l.ok,
     id |-> IF l.ok /\ l.data # <<>> THEN l.data[Len(l.data)].id ELSE NoId]

\* first_by_name, after the listing: the first assistant with exactly this name
FirstNamed(l, name) ==
    [r |-> l.r, calls |-> l.calls, ok |-> l.ok,
     id |-> IF l.ok /\ Named(l.data, name) # <<>> THEN Head(Named(l.data, name)).id ELSE NoId]

\* first_by_name(oac, name): looks at the first page only
first_by_name(c, name, fails) == FirstNamed(ListAssts(c, fails), name)

RECURSIVE DeleteFilesIn(_, _, _)
\* the loop of delete: one oa_files.delete per id, a failure is not an error
DeleteFilesIn(c, ids, fails) ==
    IF ids = <<>> THEN c
    ELSE DeleteFilesIn(DeleteFile(c, Head(ids), fails), Tail(ids), fails)

RECURSIVE ValuesIn(_, _)
\* HashMap::into_values: the values of m, its keys iterated in the order
\* `order` (the iteration order of a HashMap is arbitrary).
ValuesIn(m, order) ==
    IF order = <<>> THEN <<>>
    ELSE (IF Head(order) \in DOMAIN m THEN <<m[Head(order)]>> ELSE <<>>)
         \o ValuesIn(m, Tail(order))

\* A variant of DeleteIndexed that deletes the assistant and none of its files.
DeleteIndexed_AsstOnly(hm, a, order, fails) ==
    IF ~hm.ok THEN Ctx(hm.r, hm.calls, FALSE)
    ELSE DeleteAsst(hm, a, fails)

\* delete, after get_file_hashmap: the files of the index, then the assistant
DeleteIndexed(hm, a, order, fails) ==
    IF ~hm.ok THEN Ctx(hm.r, hm.calls, FALSE)
    ELSE DeleteAsst(DeleteFilesIn(hm, ValuesIn(hm.map, order), fails), a, fails)

\* delete(oac, asst_id)
delete(c, a, desc, order, fails) ==
    DeleteIndexed(get_file_hashmap(c, a, desc, fails), a, order, fails)

\* What load_or_create_asst returns: Ok(AsstId) or Err; with it the remote
\* state it leaves, the calls it issued and the id the lookup found.
AsstResult(c, found, ok, id) ==
    [r |-> c.r, calls |-> c.calls, found |-> found, ok |-> ok, id |-> id]

\* load_or_create_asst, "Create if needed", no asst_id left: create(oac, config)
Created(cr, found) == AsstResult(cr, found, cr.ok, cr.id)

\* A variant of Recreated that creates the assistant whatever delete returned.
Recreated_Regardless(del, found, name, model, fails) ==
    Created(CreateAsst(del, name, model, fails), found)

\* load_or_create_asst, after delete in the recreate branch: asst_id.take()
Recreated(del, found, name, model, fails) ==
    IF ~del.ok THEN AsstResult(del, found, FALSE, NoId)
    ELSE Created(CreateAsst(del, name, model, fails), found)

\* A variant of LoadFound that creates an assistant even when one was found.
LoadFound_AlwaysCreates(fb, name, model, recreate, desc, order, fails) ==
    IF ~fb.ok THEN AsstResult(fb, NoId, FALSE, NoId)
    ELSE IF recreate /\ fb.id # NoId
         THEN Recreated(delete(fb, fb.id, desc, order, fails), fb.id, name, model, fails)
    ELSE Created(CreateAsst(fb, name, model, fails), fb.id)

\* load_or_create_asst, after first_by_name
LoadFound(fb, name, model, recreate, desc, order, fails) ==
    IF ~fb.ok THEN AsstResult(fb, NoId, FALSE, NoId)
    ELSE IF recreate /\ fb.id # NoId
         THEN Recreated(delete(fb, fb.id, desc, order, fails), fb.id, name, model, fails)
    ELSE IF fb.id # NoId THEN AsstResult(fb, fb.id, TRUE, fb.id)
    ELSE Created(CreateAsst(fb, name, model, fails), NoId)

\* load_or_create_asst(oac, config, recreate)
load_or_create_asst(r, name, model, recreate, desc, order, fails) ==
    LoadFound(first_by_name(Ctx(r, <<>>, TRUE), name, fails),
              name, model, recreate, desc, order, fails)

\* ------------------------------------------------------------------ thread

\* The conversation as one value, threaded through the calls of run_thread_msg.
Chat == [thread |-> thread, run |-> run]

\* user_msg(content): CreateMessageRequest {role: "user", content}
user_msg(content) == [role |-> "user", content |-> <<TextBlock(content)>>]

\* format!("{:?}", status): the name of the variant of RunStatus
DebugName(status) ==
    CASE status = "queued" -> "Queued"
      [] status = "in_progress" -> "InProgress"
      [] status = "requires_action" -> "RequiresAction"
      [] status = "cancelling" -> "Cancelling"
      [] status = "cancelled" -> "Cancelled"
      [] status = "failed" -> "Failed"
      [] status = "completed" -> "Completed"
      [] status = "expired" -> "Expired"

\* oac.threads().messages(thread_id).create(msg)
CreateMessage(c, msg, fatal) ==
    LET ok == fatal # "create_message"
    IN  [r |-> IF ok THEN [c.r EXCEPT !.thread = <<msg>> \o @] ELSE c.r,
         calls |-> Append(c.calls, Call("create_message", msg.content[1].value, ok)),
         ok |-> ok]

\* oac.threads().runs(thread_id).create(run_request): the run the service
\* starts will show the statuses of script and post reply when it completes
CreateRun(c, script, reply, fatal) ==
    LET ok == fatal # "create_run"
    IN  [r |-> IF ok THEN [c.r EXCEPT !.run = [script |-> script, reply |-> reply]]
               ELSE c.r,
         calls |-> Append(c.calls, Call("create_run", "", ok)),
         ok |-> ok]

\* The conversation once a retrieval has shown the run's next status: a run
\* seen completed has posted its reply.
Observed(r) ==
    [thread |-> IF Head(r.run.script) = "completed" /\ r.run.reply.post
                THEN <<[role |-> "assistant", content |-> r.run.reply.content]>> \o r.thread
                ELSE r.thread,
     run |-> [script |-> IF Len(r.run.script) > 1 THEN Tail(r.run.script)
                         ELSE r.run.script,
              reply |-> IF Head(r.run.script) = "completed" THEN NoReply
                        ELSE r.run.reply]]

\* oac.threads().runs(thread_id).retrieve(&run.id)
RetrieveRun(c, fatal) ==
    LET ok == fatal # "retrieve_run"
    IN  [r |-> IF ok THEN Observed(c.r) ELSE c.r,
         calls |-> Append(c.calls,
                     Call("retrieve_run", IF ok THEN Head(c.r.run.script) ELSE "", ok)),
         ok |-> ok,
         status |-> IF ok THEN Head(c.r.run.script) ELSE ""]

\* A variant of ListMessages that lists the oldest message of the thread.
ListMessages_Oldest(c, fatal) ==
    LET ok == fatal # "list_messages"
    IN  [r |-> c.r,
         calls |-> Append(c.calls, Call("list_messages", "limit=1", ok)),
         ok |-> ok,
         data |-> IF ok /\ c.r.thread # <<>> THEN <<c.r.thread[Len(c.r.thread)]>> ELSE <<>>]

\* oac.threads().messages(thread_id).list(&QUERY), QUERY = [("limit", "1")]
ListMessages(c, fatal) ==
    LET ok == fatal # "list_messages"
    IN  [r |-> c.r,
         calls |-> Append(c.calls, Call("list_messages", "limit=1", ok)),
         ok |-> ok,
         data |-> IF ok THEN SubSeq(c.r.thread, 1, Min(Len(c.r.thread), 1)) ELSE <<>>]

\* What run_thread_msg returns, Ok(String) or Err, and where it stands.
RunOk(c, val) ==
    [r |-> c.r, calls |-> c.calls, pc |-> "done",
     res |-> [ok |-> TRUE, val |-> val, err |-> "", status |-> ""]]

RunErr(c, err, status) ==
    [r |-> c.r, calls |-> c.calls, pc |-> "done",
     res |-> [ok |-> FALSE, val |-> "", err |-> err, status |-> status]]

\* run_thread_msg between two iterations of its loop: no result yet
RunOn(c, at) ==
    [r |-> c.r, calls |-> c.calls, pc |-> at,
     res |-> [ok |-> FALSE, val |-> "", err |-> "", status |-> ""]]

\* A variant of get_text_content that skips an image in front of a text.
get_text_content_SkipsImage(c, msg) ==
    IF msg.content = <<>> THEN RunErr(c, "No message content found", "")
    ELSE IF Head(msg.content).type = "text" THEN RunOk(c, Head(msg.content).value)
    ELSE IF Len(msg.content) > 1 /\ msg.content[2].type = "text"
         THEN RunOk(c, msg.content[2].value)
    ELSE RunErr(c, "Message image not supported yet", "")

\* get_text_content(msg): the text of the first content item
get_text_content(c, msg) ==
    IF msg.content = <<>> THEN RunErr(c, "No message content found", "")
    ELSE IF Head(msg.content).type = "text" THEN RunOk(c, Head(msg.content).value)
    ELSE RunErr(c, "Message image not supported yet", "")

\* get_first_thread_msg_content, after the listing: messages.data.into_iter().next()
FirstMessage(l) ==
    IF ~l.ok THEN RunErr(l, "remote", "")
    ELSE IF l.data = <<>> THEN RunErr(l, "No message found", "")
    ELSE get_text_content(l, Head(l.data))

\* get_first_thread_msg_content(oac, thread_id)
get_first_thread_msg_content(c, fatal) == FirstMessage(ListMessages(c, fatal))

\* A variant of MatchStatus that goes on after QUEUED only.
MatchStatus_QueuedOnly(rt, fatal) ==
    IF ~rt.ok THEN RunErr(rt, "remote", "")
    ELSE IF rt.status = "completed" THEN get_first_thread_msg_content(rt, fatal)
    ELSE IF rt.status = "queued" THEN RunOn(rt, "sleep")
    ELSE RunErr(rt, "ERROR WHILE RUN: ", DebugName(rt.status))

\* A variant of MatchStatus that waits on every status but COMPLETED.
MatchStatus_OthersWait(rt, fatal) ==
    IF ~rt.ok THEN RunErr(rt, "remote", "")
    ELSE IF rt.status = "completed" THEN get_first_thread_msg_content(rt, fatal)
    ELSE RunOn(rt, "sleep")

\* run_thread_msg, one iteration of the loop after the retrieval: match run.status
MatchStatus(rt, fatal) ==
    IF ~rt.ok THEN RunErr(rt, "remote", "")
    ELSE IF rt.status = "completed" THEN get_first_thread_msg_content(rt, fatal)
    ELSE IF rt.status \in {"queued", "in_progress"} THEN RunOn(rt, "sleep")
    ELSE RunErr(rt, "ERROR WHILE RUN: ", DebugName(rt.status))

\* A variant of PollRun that retrieves the run twice in one iteration.
PollRun_RetrievesTwice(c, fatal) ==
    MatchStatus(RetrieveRun(RetrieveRun(c, fatal), fatal), fatal)

\* run_thread_msg, one iteration of the loop up to the sleep
PollRun(c, fatal) == MatchStatus(RetrieveRun(c, fatal), fatal)

\* run_thread_msg, after the message was attached: create a run for the thread
RunCreated(cr) == IF ~cr.ok THEN RunErr(cr, "remote", "") ELSE RunOn(cr, "poll")

\* A variant of StartRun that creates the run whether the message was attached
\* or not.
StartRun_Regardless(cm, script, reply, fatal) ==
    RunCreated(CreateRun(cm, script, reply, fatal))

StartRun(cm, script, reply, fatal) ==
    IF ~cm.ok THEN RunErr(cm, "remote", "")
    ELSE RunCreated(CreateRun(cm, script, reply, fatal))

\* run_thread_msg(oac, asst_id, thread_id, msg), up to its loop
run_thread_msg(r, msg, script, reply, fatal) ==
    StartRun(CreateMessage(Ctx(r, <<>>, TRUE), user_msg(msg), fatal), script, reply, fatal)

\* ------------------------------------------------------------ conversation

\* The conversation record and the remote threads as one value, threaded
\* through the steps of load_or_create_conv.
Project == [file |-> conv_file, threads |-> threads, next |-> nextThread]

\* Which steps of one call of load_or_create_conv fail: fatal names one step
\* whose failure ends the call ("none": none), rm whether fs::remove_file
\* fails, unreadable whether conv.json cannot be opened.
ConvFails(fatal, rm, unreadable) == [fatal |-> fatal, rm |-> rm, unreadable |-> unreadable]

\* self.data_dir(): ensure_dir(".buddy")
EnsureDir(c, fails) ==
    LET ok == fails.fatal # "ensure_dir"
    IN  [r |-> c.r, calls |-> Append(c.calls, Call("ensure_dir", NoId, ok)), ok |-> ok]

\* fs::remove_file(&conv_file)
RemoveConvFile(c, fails) ==
    LET ok == ~fails.rm
    IN  [r |-> IF ok THEN [c.r EXCEPT !.file = NoConvFile] ELSE c.r,
         calls |-> Append(c.calls, Call("remove_file", c.r.file.thread_id, ok)),
         ok |-> ok]

\* load_from_json::<Conv>(&conv_file): get_reader, then serde_json::from_reader
load_from_json(c, fails) ==
    LET ok == c.r.file.kind = "json" /\ ~fails.unreadable
    IN  [r |-> c.r, calls |-> Append(c.calls, Call("load_from_json", c.r.file.thread_id, ok)),
         ok |-> ok,
         id |-> IF ok THEN c.r.file.thread_id ELSE NoId]

\* get_thread(oac, thread_id): oa_threads.retrieve(thread_id)
get_thread(c, thread_id, fails) ==
    LET ok == thread_id \in c.r.threads /\ fails.fatal # "retrieve_thread"
    IN  [r |-> c.r, calls |-> Append(c.calls, Call("retrieve_thread", thread_id, ok)),
         ok |-> ok, id |-> thread_id]

\* create_thread(oac): oa_threads.create(CreateThreadRequest::default())
create_thread(c, fails) ==
    LET ok == fails.fatal # "create_thread"
    IN  [r |-> IF ok THEN [c.r EXCEPT !.threads = @ \cup {c.r.next}, !.next = @ + 1]
               ELSE c.r,
         calls |-> Append(c.calls, Call("create_thread", IF ok THEN c.r.next ELSE NoId, ok)),
         ok |-> ok,
         id |-> IF ok THEN c.r.next ELSE NoId]

\* save_to_json(&conv_file, &conv): File::create truncates the file, then
\* serde_json::to_writer_pretty writes it; either may fail
save_to_json(c, thread_id, fails) ==
    LET ok == fails.fatal \notin {"save_create", "save_write"}
    IN  [r |-> IF ok THEN [c.r EXCEPT !.file = ConvJson(thread_id)]
               ELSE IF fails.fatal = "save_write"
                    THEN [c.r EXCEPT !.file = CorruptConvFile]
               ELSE c.r,
         calls |-> Append(c.calls, Call("save_to_json", thread_id, ok)),
         ok |-> ok, id |-> thread_id]

\* What load_or_create_conv returns: Ok(Conv) or Err.
ConvResult(c, ok, id, err) ==
    [r |-> c.r, calls |-> c.calls, ok |-> ok, id |-> id, err |-> err]

\* load_or_create_conv, the new thread created and the Conv written
ConvSaved(sv) ==
    IF ~sv.ok THEN ConvResult(sv, FALSE, NoId, "save_to_json")
    ELSE ConvResult(sv, TRUE, sv.id, "")

\* load_or_create_conv, no record loaded: create the thread, persist the Conv
ConvCreated(ct, fails) ==
    IF ~ct.ok THEN ConvResult(ct, FALSE, NoId, "remote")
    ELSE ConvSaved(save_to_json(ct, ct.id, fails))

\* A variant that heals a lost thread: it creates and persists a new one.
ConvLoaded_Heals(gt) ==
    IF ~gt.ok
    THEN ConvCreated(create_thread(gt, ConvFails("none", FALSE, FALSE)),
                     ConvFails("none", FALSE, FALSE))
    ELSE ConvResult(gt, TRUE, gt.id, "")

\* load_or_create_conv, the record loaded: the thread must still be there
ConvLoaded(gt) ==
    IF ~gt.ok THEN ConvResult(gt, FALSE, NoId, "Connot find thread_id")
    ELSE ConvResult(gt, TRUE, gt.id, "")

\* A variant that never resumes: it creates a thread whatever it loaded.
ConvRead_AlwaysCreates(ld, fails) ==
    ConvCreated(create_thread(ld, fails), fails)

\* A variant that reports a record that is there and cannot be read as a Conv.
ConvRead_LoadErrorIsError(ld, fails) ==
    IF ld.ok THEN ConvLoaded(get_thread(ld, ld.id, fails))
    ELSE IF ld.r.file.kind # "absent" THEN ConvResult(ld, FALSE, NoId, "load_from_json")
    ELSE ConvCreated(create_thread(ld, fails), fails)

\* load_or_create_conv, after load_from_json: if let Ok(conv) ... else ...
ConvRead(ld, fails) ==
    IF ld.ok THEN ConvLoaded(get_thread(ld, ld.id, fails))
    ELSE ConvCreated(create_thread(ld, fails), fails)

\* load_or_create_conv, after data_dir: remove the record if recreate
ConvIn(dd, recreate, fails) ==
    IF ~dd.ok THEN ConvResult(dd, FALSE, NoId, "ensure_dir")
    ELSE IF recreate /\ dd.r.file.kind # "absent"
         THEN ConvRead(load_from_json(RemoveConvFile(dd, fails), fails), fails)
    ELSE ConvRead(load_from_json(dd, fails), fails)

\* Buddy::load_or_create_conv(&self, recreate)
load_or_create_conv(r, recreate, fails) ==
    ConvIn(EnsureDir(Ctx(r, <<>>, TRUE), fails), recreate, fails)

\* ------------------------------------------------------------------ bundle

\* The disk with bytes written to path p, created if it is not there.
Put(d, p, bytes) == [q \in DOMAIN d \cup {p} |-> IF q = p THEN bytes ELSE d[q]]

\* BufRead::lines: a line ends at a line feed, which is dropped with the
\* carriage return before it; bytes after the last line feed are a line too.
RECURSIVE LinesFrom(_, _)
LinesFrom(b, cur) ==
    IF b = <<>> THEN (IF cur = <<>> THEN <<>> ELSE <<cur>>)
    ELSE IF Head(b) = "LF"
         THEN <<IF cur # <<>> /\ cur[Len(cur)] = "CR"
                THEN SubSeq(cur, 1, Len(cur) - 1) ELSE cur>>
              \o LinesFrom(Tail(b), <<>>)
    ELSE LinesFrom(Tail(b), Append(cur, Head(b)))

\* writeln!(writer, "{}", line) for each line
RECURSIVE WriteLines(_)
WriteLines(lines) ==
    IF lines = <<>> THEN <<>>
    ELSE Head(lines) \o <<"LF">> \o WriteLines(Tail(lines))

\* What bundle_to_file writes for one file: writeln!("\n// ==== file path:
\* {}\n"), the lines, writeln!("\n\n").  The header text is one element.
WriteFile(p, bytes) ==
    <<"LF", "// ==== file path: " \o PathStr(p), "LF", "LF">>
    \o WriteLines(LinesFrom(bytes, <<>>))
    \o <<"LF", "LF", "LF">>

\* The loop of bundle_to_file over the files left, out being written so far:
\* a path that is no regular file, or one that cannot be opened, ends it.
RECURSIVE BundleFrom(_, _, _, _)
BundleFrom(d, fs, out, unreadable) ==
    IF fs = <<>> THEN [ok |-> TRUE, bytes |-> out, err |-> ""]
    ELSE IF Head(fs) \notin DOMAIN d
         THEN [ok |-> FALSE, bytes |-> out, err |-> "Connot bundle"]
    ELSE IF Head(fs) \in unreadable
         THEN [ok |-> FALSE, bytes |-> out, err |-> "io"]
    ELSE BundleFrom(d, Tail(fs), out \o WriteFile(Head(fs), d[Head(fs)]), unreadable)

\* A variant that opens the destination for appending.
Truncated_Appends(d, dst) == IF dst \in DOMAIN d THEN d ELSE Put(d, dst, <<>>)

\* File::create(dst_file): the file is created, or truncated if it is there
Truncated(d, dst) == Put(d, dst, <<>>)

\* bundle_to_file(files, dst_file): create fails or not; the writer is
\* flushed at the end, and when it is dropped on an error.  The files are
\* smaller than the writer's buffer, so nothing reaches dst before.
BundleWritten(t, fs, dst, unreadable) ==
    \* t: the disk after File::create
    LET b == BundleFrom(t, fs, <<>>, unreadable)
    IN  [disk |-> Put(t, dst, t[dst] \o b.bytes), ok |-> b.ok, err |-> b.err]

bundle_to_file(d, fs, dst, create, unreadable) ==
    IF ~create THEN [disk |-> d, ok |-> FALSE, err |-> "io"]
    ELSE BundleWritten(Truncated(d, dst), fs, dst, unreadable)

\* ------------------------------------------------------------ upload_files

\* Which calls of one remote operation fail: fatal names one call whose
\* failure ends it, del the files whose delete fails, detach whether the
\* removal of an attachment fails.
Fails(fatal, del, detach) == [fatal |-> fatal, del |-> del, detach |-> detach]

\* file.x_file_name()
FileName(p) == p.stem \o "." \o p.ext

\* The disk without the file at p.
Remove(d, p) == [q \in DOMAIN d \ {p} |-> d[q]]

\* The globs of the model: "*.<ext>", and "*<asst id>*".
ExtGlob(ext) == [kind |-> "ext", ext |-> ext, id |-> NoId]

HasIdGlob(id) == [kind |-> "id", ext |-> "", id |-> id]

\* The text of the assistant's id occurs in the path: of the paths of the
\* model, in those of the bundle files built for that id.
Mentions(p, id) ==
    \E n \in Names, b \in BundleNames : p.stem = BundleFile(n, b, id, p.ext).stem

\* GlobSet::is_match
GlobMatch(gs, p) ==
    \E i \in 1..Len(gs) :
        IF gs[i].kind = "ext" THEN p.ext = gs[i].ext ELSE Mentions(p, gs[i].id)

\* The elements of a set in some order.
AsSeq(S) == CHOOSE s \in [1..Cardinality(S) -> S] : Range(s) = S

\* list_files(dir, Some(include), exclude): the regular files right under the
\* directory that no exclude glob and some include glob matches, in the order
\* the directory is walked
list_files(d, dir, include, exclude) ==
    AsSeq({p \in DOMAIN d :
            p.dir = dir /\ ~GlobMatch(exclude, p) /\ GlobMatch(include, p)})

\* src_dir.is_dir(): the directories of the project
SrcDirs == {"src", "docs"}

\* file_str.contains(".buddy"): of the directories of the model the hidden
\* one only
UnderBuddy(p) == p.dir = DataFilesDir

\* upload_files so far: remote state, disk, calls, and its result.
Pass(r, d, cs, ok, num, err) ==
    [r |-> r, d |-> d, calls |-> cs, ok |-> ok, num |-> num, err |-> err]

\* Which step of one call of upload_files fails: the step fatal ("none": no
\* step) of bundle at, or at the at-th stale file.
FilesFails(fatal, at) == [fatal |-> fatal, at |-> at]

\* A variant of the purge that excludes nothing.
PurgeCandidates_All(d, a) ==
    list_files(d, DataFilesDir, <<ExtGlob("rs"), ExtGlob("md")>>, <<>>)

\* upload_files: the left-overs, list_files(&data_files_dir, Some(&["*.rs",
\* "*.md"]), Some(&[&exclude_element]))
PurgeCandidates(d, a) ==
    list_files(d, DataFilesDir, <<ExtGlob("rs"), ExtGlob("md")>>, <<HasIdGlob(a)>>)

\* upload_files, one left-over: the safeguard, then fs::remove_file(&file)?
PurgeOne(u, p, k, fails) ==
    IF ~UnderBuddy(p)
    THEN Pass(u.r, u.d, u.calls, FALSE, u.num, "Error should no delete")
    ELSE IF fails.fatal = "remove_file" /\ fails.at = k
         THEN Pass(u.r, u.d, Append(u.calls, Call("remove_file", k, FALSE)),
                   FALSE, u.num, "io")
    ELSE Pass(u.r, Remove(u.d, p), Append(u.calls, Call("remove_file", k, TRUE)),
              TRUE, u.num, "")

\* upload_files: the loop over the left-overs, from the k-th on; an error
\* ends it
RECURSIVE PurgeFrom(_, _, _, _)
PurgeFrom(u, cands, k, fails) ==
    IF ~u.ok \/ cands = <<>> THEN u
    ELSE CHOOSE w \in {PurgeFrom(v, Tail(cands), k + 1, fails) :
                          v \in {PurgeOne(u, Head(cands), k, fails)}} : TRUE

\* The failures of the upload of bundle i.
RemoteFails(fails, i) ==
    Fails(IF fails.at = i /\ fails.fatal \in {"list_asst_files", "list_files",
                                               "create_file", "create_asst_file"}
          THEN fails.fatal ELSE "none", {}, FALSE)

\* upload_files, the bundle file of bundle i written: upload_file_by_name
BundleUploaded(u, bt, up, i) ==
    Pass(up.r, bt.disk, u.calls \o <<Call("bundle_to_file", i, TRUE)>> \o up.calls,
         up.res.ok, u.num + (IF up.res.uploaded THEN 1 ELSE 0),
         IF up.res.ok THEN "" ELSE "remote")

\* A variant that forces the upload only on recreate.
ForceReupload_RecreateOnly(d, bundle_file, recreate) == recreate

\* A variant that forces every upload.
ForceReupload_Always(d, bundle_file, recreate) == TRUE

\* let force_reupload = recreate || !bundle_file.exists()
ForceReupload(d, bundle_file, recreate) == recreate \/ bundle_file \notin DOMAIN d

\* upload_files, bundle i with its files listed: the bundle file is rebuilt,
\* then uploaded
BundleBuilt(u, a, bundle_file, force, bt, i, fails) ==
    IF ~bt.ok
    THEN Pass(u.r, bt.disk, Append(u.calls, Call("bundle_to_file", i, FALSE)),
              FALSE, u.num, bt.err)
    ELSE CHOOSE w \in {BundleUploaded(u, bt, up, i) :
                          up \in {upload_file_by_name(u.r, a, FileName(bundle_file), force,
                                                      TRUE, RemoteFails(fails, i))}} : TRUE

\* A variant that bundles whatever was matched, nothing included.
HasFiles_Always(fs) == TRUE

\* if !files.is_empty()
HasFiles(fs) == fs # <<>>

\* upload_files, bundle i of a source directory that is there
BundleListed(u, a, name, b, fs, i, recreate, fails) ==
    IF ~HasFiles(fs) THEN u
    ELSE CHOOSE w \in
            {BundleBuilt(u, a, bundle_file, ForceReupload(u.d, bundle_file, recreate),
                         bt, i, fails) :
                bundle_file \in {BundleFile(name, b.bundle_name, a, b.dst_ext)},
                bt \in {bundle_to_file(u.d, fs,
                                       BundleFile(name, b.bundle_name, a, b.dst_ext),
                                       ~(fails.fatal = "bundle_create" /\ fails.at = i),
                                       {})}} : TRUE

\* upload_files, one bundle of the config
BundleOne(u, a, name, b, i, recreate, fails) ==
    IF b.src_dir \notin SrcDirs THEN u
    ELSE IF fails.fatal = "list_src" /\ fails.at = i
         THEN Pass(u.r, u.d, u.calls, FALSE, u.num, "glob")
    ELSE CHOOSE w \in {BundleListed(u, a, name, b, fs, i, recreate, fails) :
                          fs \in {list_files(u.d, b.src_dir, b.src_globs, <<>>)}} : TRUE

\* upload_files: the loop over config.file_bundles, from the i-th on; an
\* error ends it
RECURSIVE BundlesFrom(_, _, _, _, _, _, _)
BundlesFrom(u, a, name, bundles, i, recreate, fails) ==
    IF ~u.ok \/ bundles = <<>> THEN u
    ELSE CHOOSE w \in
            {BundlesFrom(v, a, name, Tail(bundles), i + 1, recreate, fails) :
                v \in {BundleOne(u, a, name, Head(bundles), i, recreate, fails)}} : TRUE

\* Buddy::upload_files(&self, recreate)
upload_files(r, d, a, name, bundles, recreate, fails) ==
    IF fails.fatal = "ensure_dir"
    THEN Pass(r, d, <<Call("ensure_dir", NoId, FALSE)>>, FALSE, 0, "io")
    ELSE IF fails.fatal = "list_purge"
    THEN Pass(r, d, <<Call("ensure_dir", NoId, TRUE)>>, FALSE, 0, "glob")
    ELSE CHOOSE w \in
            {BundlesFrom(pg, a, name, bundles, 1, recreate, fails) :
                pg \in {PurgeFrom(Pass(r, d, <<Call("ensure_dir", NoId, TRUE)>>, TRUE, 0, ""),
                                  PurgeCandidates(d, a), 1, fails)}} : TRUE

\* ----------------------------------------------------------------- actions

\* The orders in which a HashMap over FileNames may iterate.
KeyOrders ==
    {s \in [1..Cardinality(FileNames) -> FileNames] : Range(s) = FileNames}

\* The orders in which oa_files.list() may list the account's files: the
\* order shows only when two files carry one filename.
ListOrders ==
    IF \E i, j \in 1..Len(files) : i # j /\ files[i].filename = files[j].filename
    THEN BOOLEAN ELSE {TRUE}

\* The ids attached to an assistant named name.
AttachedTo(name) ==
    UNION {Range(assts[i].files) : i \in {j \in 1..Len(assts) : assts[j].name = name}}

Init ==
    /\ assts = <<>>
    /\ files = <<>>
    /\ nextAsst = 1
    /\ nextFile = 1
    /\ asst_id = NoId
    /\ calls = <<>>
    /\ ret = [op |-> "none"]
    /\ thread = <<>>
    /\ run = NoRun
    /\ pc = "idle"
    /\ conv_file = NoConvFile
    /\ threads = {}
    /\ nextThread = 1
    /\ conv = NoId
    /\ session = "start"
    /\ disk = NoFiles

\* The step of load_or_create_asst with these inputs.
LoadOrCreateStep(name, model, recreate, desc, order, fails) ==
    \E out \in {load_or_create_asst(Remote, name, model, recreate, desc, order, fails)} :
        /\ assts' = out.r.assts
        /\ files' = out.r.files
        /\ nextAsst' = out.r.nextAsst
        /\ nextFile' = out.r.nextFile
        /\ asst_id' = out.id
        /\ calls' = out.calls
        /\ ret' = [op |-> "load_or_create_asst", name |-> name, model |-> model,
                   recreate |-> recreate, found |-> out.found,
                   ok |-> out.ok, id |-> out.id]
        /\ UNCHANGED <<chatVars, projVars>>

\* The failures of one call of upload_file_by_name.  A failed listing ends
\* the call before any other call is made, so it is drawn alone.
UploadFailures ==
    {Fails(f, {}, FALSE) : f \in {"list_asst_files", "list_files"}}
    \cup {Fails(f, d, t) : f \in {"none", "create_file", "create_asst_file"},
                           d \in {{}, FileIds(Remote)}, t \in BOOLEAN}

\* The failures of one call of load_or_create_asst with recreate, likewise.
RecreateFailures(name) ==
    {Fails(f, {}, FALSE) : f \in {"list_assts", "list_asst_files", "list_files"}}
    \cup {Fails(f, d, FALSE) : f \in {"none", "delete_asst", "create_asst"},
                               d \in SUBSET (AttachedTo(name) \cap FileIds(Remote))}

\* A session starts: Buddy::init_form_dir resolves the assistant of its
\* config; on an error the session ends with no Buddy.  Without recreate
\* only the listing and the create are called.
LoadAsst(names, cap) ==
    /\ nextAsst <= cap
    /\ \E name \in names, model \in Models,
          fatal \in {"none", "list_assts", "create_asst"} :
            LoadOrCreateStep(name, model, FALSE, TRUE, CHOOSE o \in KeyOrders : TRUE,
                             Fails(fatal, {}, FALSE))

\* The same with recreate: every call of delete may fail as well.
RecreateAsst(names, cap) ==
    /\ nextAsst <= cap
    /\ \E name \in names, model \in Models, desc \in ListOrders, order \in KeyOrders :
         \E fails \in RecreateFailures(name) :
            LoadOrCreateStep(name, model, TRUE, desc, order, fails)

\* The session reconciles one local file with its assistant.
UploadFileByName ==
    /\ asst_id # NoId
    /\ nextFile <= MaxFileId
    /\ \E file_name \in FileNames, force \in BOOLEAN, desc \in ListOrders,
          fails \in UploadFailures :
         \E out \in {upload_file_by_name(Remote, asst_id, file_name, force, desc, fails)} :
            /\ assts' = out.r.assts
            /\ files' = out.r.files
            /\ nextAsst' = out.r.nextAsst
            /\ nextFile' = out.r.nextFile
            /\ asst_id' = asst_id
            /\ calls' = out.calls
            /\ ret' = [op |-> "upload_file_by_name", asst |-> asst_id, file |-> file_name,
                       force |-> force, found |-> out.found,
                       ok |-> out.res.ok, id |-> out.res.id, uploaded |-> out.res.uploaded]
            /\ UNCHANGED <<chatVars, projVars>>

Next ==
    \/ LoadAsst(Names, MaxAsstId)
    \/ RecreateAsst(Names, MaxAsstId)
    \/ UploadFileByName

Spec == Init /\ [][Next]_vars

\* Assistants only, with more names and ids than one page of the listing holds.
NextPaged ==
    \/ LoadAsst(PagedNames, MaxPagedAsstId)
    \/ RecreateAsst(PagedNames, MaxPagedAsstId)

SpecPaged == Init /\ [][NextPaged]_vars

\* A session of one of two projects on one account starts, with or without
\* recreate; the calls of the listing and of the create may fail.
FrameLoad ==
    /\ nextAsst <= MaxFrameAsstId
    /\ \E name \in FrameNames, model \in Models, recreate \in BOOLEAN,
          fatal \in {"none", "create_asst"} :
            LoadOrCreateStep(name, model, recreate, TRUE, CHOOSE o \in KeyOrders : TRUE,
                             Fails(fatal, {}, FALSE))

\* The session reconciles one local file with its assistant; the deletes of
\* a replacement both succeed or both fail.
FrameUpload ==
    /\ asst_id # NoId
    /\ nextFile <= MaxFileId
    /\ \E file_name \in FileNames, force \in BOOLEAN,
          fails \in {Fails("none", {}, FALSE), Fails("none", FileIds(Remote), TRUE)} :
         \E out \in {upload_file_by_name(Remote, asst_id, file_name, force, TRUE, fails)} :
            /\ assts' = out.r.assts
            /\ files' = out.r.files
            /\ nextAsst' = out.r.nextAsst
            /\ nextFile' = out.r.nextFile
            /\ asst_id' = asst_id
            /\ calls' = out.calls
            /\ ret' = [op |-> "upload_file_by_name", asst |-> asst_id, file |-> file_name,
                       force |-> force, found |-> out.found,
                       ok |-> out.res.ok, id |-> out.res.id, uploaded |-> out.res.uploaded]
            /\ UNCHANGED <<chatVars, projVars>>

NextFrame ==
    \/ FrameLoad
    \/ FrameUpload

\* The sessions of two projects on one account: each resolves its own
\* assistant and reconciles files of the same names.
SpecFrame == Init /\ [][NextFrame]_vars

\* The statuses a run may show: up to MaxWaits times QUEUED or IN_PROGRESS,
\* then its last status.
Waits == UNION {[1..n -> {"queued", "in_progress"}] : n \in 0..MaxWaits}

Scripts == {w \o <<last>> : w \in Waits, last \in Statuses}

\* start, after buddy.chat(&conv, &msg).await?: a chat that returned Ok is
\* printed and the loop goes on, a chat that returned Err ends start.  Outside
\* a session (run_thread_msg called by itself) there is no loop to move.
SessionAfter(out) ==
    IF session \notin {"prompt", "chat"} THEN session
    ELSE IF out.pc # "done" THEN "chat"
    ELSE IF out.res.ok THEN "prompt"
    ELSE "exited"

\* The position of run_thread_msg and its result so far.
RunStep(out, msg) ==
    /\ thread' = out.r.thread
    /\ run' = out.r.run
    /\ calls' = out.calls
    /\ pc' = out.pc
    /\ ret' = [op |-> "run_thread_msg", msg |-> msg, ok |-> out.res.ok,
               val |-> out.res.val, err |-> out.res.err, status |-> out.res.status]
    /\ session' = SessionAfter(out)
    /\ UNCHANGED <<acctVars, convVars, disk>>

\* Buddy::chat: run_thread_msg attaches the user's message and creates the run.
RunThreadMsg ==
    /\ pc \in {"idle", "done"}
    /\ \E msg \in Msgs \ {thread[i].content[1].value :
                                i \in {j \in 1..Len(thread) : thread[j].role = "user"}},
          script \in Scripts, reply \in Replies,
          fatal \in {"none", "create_message", "create_run"} :
         \E out \in {run_thread_msg(Chat, msg, script, reply, fatal)} :
            RunStep(out, msg)

\* One iteration of the loop: retrieve the run and match its status.
Poll ==
    /\ pc = "poll"
    /\ Cardinality({i \in 1..Len(calls) : calls[i].call = "retrieve_run"}) < MaxPolls
    /\ \E fatal \in {"none", "retrieve_run", "list_messages"} :
         \E out \in {PollRun(Ctx(Chat, calls, TRUE), fatal)} :
            RunStep(out, ret.msg)

\* sleep(Duration::from_millis(POLLING_DURATION_MS)), then the next iteration
Sleep ==
    /\ pc = "sleep"
    /\ pc' = "poll"
    /\ calls' = Append(calls, Call("sleep", POLLING_DURATION_MS, TRUE))
    /\ UNCHANGED <<acctVars, projVars, ret, thread, run>>

NextRun ==
    \/ RunThreadMsg
    \/ Poll
    \/ Sleep

SpecRun == Init /\ [][NextRun]_vars

\* The runtime resumes a task that can proceed: a retrieval is answered, a
\* timer fires.
FairRun == SpecRun /\ WF_vars(Poll) /\ WF_vars(Sleep)

\* Some client posts a message on the thread.
PostMessage ==
    /\ Len(thread) < MaxThreadLen
    /\ \E role \in {"user", "assistant"}, content \in Contents :
         thread' = <<[role |-> role, content |-> content]>> \o thread
    /\ calls' = <<>>
    /\ ret' = [op |-> "none"]
    /\ pc' = "idle"
    /\ UNCHANGED <<acctVars, projVars, run>>

\* get_first_thread_msg_content on the thread as it stands.
GetFirstThreadMsgContent ==
    /\ \E fatal \in {"none", "list_messages"} :
         \E out \in {get_first_thread_msg_content(Ctx(Chat, <<>>, TRUE), fatal)} :
            /\ calls' = out.calls
            /\ pc' = out.pc
            /\ ret' = [op |-> "get_first_thread_msg_content", ok |-> out.res.ok,
                       val |-> out.res.val, err |-> out.res.err]
    /\ UNCHANGED <<acctVars, projVars, thread, run>>

NextMsg ==
    \/ PostMessage
    \/ GetFirstThreadMsgContent

\* The reply of a thread, whatever was posted on it.
SpecMsg == Init /\ [][NextMsg]_vars

\* The failures of one call of load_or_create_conv.
ConvFailures ==
    {ConvFails(f, rm, u) :
        f \in {"none", "ensure_dir", "retrieve_thread", "create_thread",
               "save_create", "save_write"},
        rm \in BOOLEAN, u \in BOOLEAN}

\* The step of load_or_create_conv with these inputs.
LoadOrCreateConvStep(recreate, fails) ==
    \E out \in {load_or_create_conv(Project, recreate, fails)} :
        /\ out.r.next <= MaxThreadId + 1
        /\ conv_file' = out.r.file
        /\ threads' = out.r.threads
        /\ nextThread' = out.r.next
        /\ conv' = out.id
        /\ calls' = out.calls
        /\ ret' = [op |-> "load_or_create_conv", recreate |-> recreate,
                   ok |-> out.ok, id |-> out.id, err |-> out.err]

\* A session calls load_or_create_conv.
LoadOrCreateConv ==
    /\ \E recreate \in BOOLEAN, fails \in ConvFailures :
         LoadOrCreateConvStep(recreate, fails)
    /\ UNCHANGED <<acctVars, chatVars, session, disk>>

\* The service, or another client of the account, deletes a thread.
ThreadDeleted ==
    /\ \E t \in threads : threads' = threads \ {t}
    /\ UNCHANGED <<acctVars, chatVars, conv_file, nextThread, conv, session, disk,
                    calls, ret>>

NextConv ==
    \/ LoadOrCreateConv
    \/ ThreadDeleted

\* The conversation of a project over its sessions.
SpecConv == Init /\ [][NextConv]_vars

\* ----------------------------------------------------------------- session

\* Cmd::from_input
from_input(input) ==
    IF input = "/q" THEN [cmd |-> "Quit", msg |-> ""]
    ELSE IF input = "/r" \/ input = "/ra" THEN [cmd |-> "RefreshAll", msg |-> ""]
    ELSE IF input = "/ri" THEN [cmd |-> "RefreshInst", msg |-> ""]
    ELSE IF input = "/rf" THEN [cmd |-> "RefreshFiles", msg |-> ""]
    ELSE IF input = "/rc" THEN [cmd |-> "RefreshConv", msg |-> ""]
    ELSE [cmd |-> "Chat", msg |-> input]

\* Buddy::init_form_dir(DEFAULT_DIR, false): the config is read, the
\* assistant resolved without recreate, the instructions and the bundles
\* uploaded; init names the step other than the assistant's that fails.  The
\* uploads are followed in SpecFiles; here they only succeed or fail.
init_form_dir(r, name, model, afatal, init) ==
    IF init = "load_from_toml"
    THEN [r |-> r, calls |-> <<>>, ok |-> FALSE, id |-> NoId]
    ELSE LET a == load_or_create_asst(r, name, model, FALSE, TRUE,
                                      CHOOSE o \in KeyOrders : TRUE,
                                      Fails(afatal, {}, FALSE))
         IN  [r |-> a.r, calls |-> a.calls, ok |-> a.ok /\ init = "none", id |-> a.id]

\* What start has returned, which main prints: "Bye!" or "Error: ".
Exit(ok, err) ==
    /\ session' = "exited"
    /\ ret' = [op |-> "start", ok |-> ok, err |-> err]

\* start, up to its loop: init_form_dir(DEFAULT_DIR, false).await?, then
\* load_or_create_conv(false).await?
Start ==
    /\ session = "start"
    /\ \E name \in Names, model \in Models,
          afatal \in {"none", "list_assts", "create_asst"},
          init \in {"none", "load_from_toml", "upload_instructions", "upload_files"},
          fatal \in {"none", "ensure_dir", "retrieve_thread", "create_thread",
                     "save_create", "save_write"} :
         \E b \in {init_form_dir(Remote, name, model, afatal, init)} :
            /\ assts' = b.r.assts
            /\ files' = b.r.files
            /\ nextAsst' = b.r.nextAsst
            /\ nextFile' = b.r.nextFile
            /\ asst_id' = b.id
            /\ IF ~b.ok
               THEN /\ Exit(FALSE, "init_form_dir")
                    /\ calls' = b.calls
                    /\ UNCHANGED convVars
               ELSE \E out \in {load_or_create_conv(Project, FALSE,
                                                    ConvFails(fatal, FALSE, FALSE))} :
                        /\ conv_file' = out.r.file
                        /\ threads' = out.r.threads
                        /\ nextThread' = out.r.next
                        /\ conv' = out.id
                        /\ calls' = b.calls \o out.calls
                        /\ ret' = [op |-> "start", ok |-> out.ok, err |-> out.err]
                        /\ session' = IF out.ok THEN "prompt" ELSE "exited"
    /\ UNCHANGED <<chatVars, disk>>

\* One iteration of the loop of start: prompt("Ask away")?, then the command:
\* Quit breaks, Chat(msg) calls buddy.chat(&conv, &msg), any other command is
\* answered "command not supported".  A question is asked once.
Ask ==
    /\ session = "prompt"
    /\ \E prompted \in BOOLEAN, input \in Inputs :
         \E cmd \in {from_input(input)} :
            IF ~prompted
            THEN Exit(FALSE, "prompt") /\ UNCHANGED <<acctVars, chatVars, calls, convVars, disk>>
            ELSE IF cmd.cmd = "Quit"
            THEN Exit(TRUE, "") /\ UNCHANGED <<acctVars, chatVars, calls, convVars, disk>>
            ELSE IF cmd.cmd = "Chat"
            THEN /\ \A i \in 1..Len(thread) :
                        thread[i].role = "user" => thread[i].content[1].value # cmd.msg
                 /\ \E script \in Scripts, reply \in Replies,
                       fatal \in {"none", "create_message", "create_run"} :
                      \E out \in {run_thread_msg(Chat, cmd.msg, script, reply, fatal)} :
                         RunStep(out, cmd.msg)
            ELSE /\ ret' = [op |-> "command not supported", ok |-> TRUE, err |-> cmd.cmd]
                 /\ UNCHANGED <<acctVars, chatVars, calls, projVars>>

NextSession ==
    \/ Start
    \/ Ask
    \/ Poll
    \/ Sleep

\* One run of the program, from start to its exit.
SpecSession == Init /\ [][NextSession]_vars

\* ------------------------------------------------------------- bundle spec

\* What a source file may hold.
FileContents == UNION {[1..n -> Bytes] : n \in 0..MaxBytes}

\* The lists of files a bundle is built from.
FileLists ==
    {<<>>, <<SrcMain>>, <<SrcMain, DocNotes>>, <<DocNotes, SrcMain>>,
     <<SrcMain, SrcMain>>, <<SrcMain, SrcGone>>}

\* The destination of the builds.
BundleDst == BundleFile("buddy-01", "src", 1, "rs")

\* The project before a build: each source file is there or not, with any
\* contents, and the destination is not there or holds an earlier build.
InitBundle ==
    /\ assts = <<>>
    /\ files = <<>>
    /\ nextAsst = 1
    /\ nextFile = 1
    /\ asst_id = NoId
    /\ calls = <<>>
    /\ ret = [op |-> "none"]
    /\ thread = <<>>
    /\ run = NoRun
    /\ pc = "idle"
    /\ conv_file = NoConvFile
    /\ threads = {}
    /\ nextThread = 1
    /\ conv = NoId
    /\ session = "start"
    /\ \E srcs \in SUBSET {SrcMain, DocNotes} :
         \E d \in [srcs -> FileContents] :
            disk \in {d, Put(d, BundleDst, <<"a", "LF">>)}

\* bundle_to_file is called; again tells that the call before it was the
\* same build and succeeded.
BundleToFile ==
    /\ \E fs \in FileLists, create \in BOOLEAN, unreadable \in {{}, {DocNotes}} :
         \E out \in {bundle_to_file(disk, fs, BundleDst, create, unreadable)} :
            /\ disk' = out.disk
            /\ ret' = [op |-> "bundle_to_file", files |-> fs, dst |-> BundleDst,
                       ok |-> out.ok, err |-> out.err,
                       again |-> /\ ret.op = "bundle_to_file"
                                 /\ ret.ok
                                 /\ ret.files = fs]
    /\ UNCHANGED <<acctVars, chatVars, convVars, session, calls>>

NextBundle == BundleToFile

\* Builds of one bundle file, one after the other.
SpecBundle == InitBundle /\ [][NextBundle]_vars

\* -------------------------------------------------------------- files spec

\* The bundles a buddy.toml may configure.
Bundle(bundle_name, src_dir, dst_ext, src_globs) ==
    [bundle_name |-> bundle_name, src_dir |-> src_dir, dst_ext |-> dst_ext,
     src_globs |-> src_globs]

SrcBundle == Bundle("src", "src", "rs", <<ExtGlob("rs")>>)

DocsBundle == Bundle("docs", "docs", "md", <<ExtGlob("md")>>)

\* a bundle of a directory that is not there
LibBundle == Bundle("lib", "lib", "rs", <<ExtGlob("rs")>>)

\* a bundle whose globs match no file of its directory
TomlBundle == Bundle("toml", "src", "md", <<ExtGlob("toml")>>)

\* a bundle of the name and extension of SrcBundle over other files
SrcBundleOfDocs == Bundle("src", "docs", "rs", <<ExtGlob("md")>>)

\* config.file_bundles
Configs ==
    {<<SrcBundle, DocsBundle>>, <<DocsBundle, SrcBundle>>,
     <<LibBundle, TomlBundle, SrcBundle>>, <<SrcBundle, SrcBundleOfDocs>>}

\* a file of the user's in the hidden directory
KeptNotes == Path(DataFilesDir, "keep", "md")

\* The failures of one call of upload_files.
FilesFailures ==
    {FilesFails("none", 1), FilesFails("ensure_dir", 1), FilesFails("remove_file", 1),
     FilesFails("bundle_create", 1), FilesFails("create_file", 1),
     FilesFails("create_asst_file", 2)}

\* The session uploads the bundles of its config.
UploadFiles ==
    /\ asst_id # NoId
    /\ nextFile <= MaxFileId
    /\ \E name \in Names, bundles \in Configs, recreate \in BOOLEAN,
          fails \in FilesFailures :
         \E out \in {upload_files(Remote, disk, asst_id, name, bundles, recreate, fails)} :
            /\ out.r.nextFile <= MaxFileId + 1
            /\ assts' = out.r.assts
            /\ files' = out.r.files
            /\ nextAsst' = out.r.nextAsst
            /\ nextFile' = out.r.nextFile
            /\ asst_id' = asst_id
            /\ disk' = out.d
            /\ calls' = out.calls
            /\ ret' = [op |-> "upload_files", asst |-> asst_id, name |-> name,
                       bundles |-> bundles, recreate |-> recreate,
                       ok |-> out.ok, num |-> out.num, err |-> out.err]
    /\ UNCHANGED <<chatVars, convVars, session>>

\* The project before its first session: the source files are there, the
\* hidden directory holds a file of the user's.
InitFiles ==
    /\ assts = <<>>
    /\ files = <<>>
    /\ nextAsst = 1
    /\ nextFile = 1
    /\ asst_id = NoId
    /\ calls = <<>>
    /\ ret = [op |-> "none"]
    /\ thread = <<>>
    /\ run = NoRun
    /\ pc = "idle"
    /\ conv_file = NoConvFile
    /\ threads = {}
    /\ nextThread = 1
    /\ conv = NoId
    /\ session = "start"
    /\ disk = Put(Put(Put(NoFiles, SrcMain, <<"a", "LF">>), DocNotes, <<"a">>),
                  KeptNotes, <<"a">>)

\* A session starts with recreate, and every call of it succeeds.
ReplaceAsst ==
    /\ nextAsst <= MaxAsstId
    /\ \E name \in Names, model \in Models :
         LoadOrCreateStep(name, model, TRUE, TRUE, CHOOSE o \in KeyOrders : TRUE,
                          Fails("none", {}, FALSE))

NextFiles ==
    \/ LoadAsst(Names, MaxAsstId)
    \/ ReplaceAsst
    \/ UploadFiles

\* The bundles of a project over its sessions.
SpecFiles == InitFiles /\ [][NextFiles]_vars

\* The user empties the hidden directory of the bundles (or checks the project
\* out afresh): the bundle files are gone, the account is as it was.
CleanFiles ==
    /\ \E p \in DOMAIN disk : p.dir = DataFilesDir
    /\ disk' = [p \in {q \in DOMAIN disk : q.dir # DataFilesDir} |-> disk[p]]
    /\ calls' = <<>>
    /\ ret' = [op |-> "none"]
    /\ UNCHANGED <<acctVars, chatVars, convVars, session>>

NextForce ==
    \/ NextFiles
    \/ CleanFiles

\* The bundles of a project whose hidden directory may be emptied between
\* sessions.
SpecForce == InitFiles /\ [][NextForce]_vars

\* ------------------------------------------------------ reading the state

\* The remote state, as the claims compare it before and after an operation.
remote == <<assts, files, nextAsst, nextFile>>

\* The live account files with this filename attached to assistant a, in an
\* account holding the assistants as and the files fs.
LiveAttachedIn(as, fs, a, name) ==
    {f \in {fs[i].id : i \in {j \in 1..Len(fs) : fs[j].filename = name}} :
        \E i \in 1..Len(as) :
            as[i].id = a /\ \E j \in 1..Len(as[i].files) : as[i].files[j] = f}

\* The same, among the attachments the first page of the listing shows: the
\* ids the remote file index can hold for the name.
IndexedIn(as, fs, a, name) ==
    {f \in LiveAttachedIn(as, fs, a, name) :
        \E i \in 1..Len(as) :
            as[i].id = a /\ \E j \in 1..Min(Len(as[i].files), PageLimit) : as[i].files[j] = f}

LiveAttached(a, name) == LiveAttachedIn(assts, files, a, name)

Indexed(a, name) == IndexedIn(assts, files, a, name)

\* Every assistant holds at most one live attached file per filename.
AtMostOnePerNameIn(as, fs) ==
    \A i \in 1..Len(as), n \in FileNames :
        Cardinality(LiveAttachedIn(as, fs, as[i].id, n)) <= 1

\* The attachments of every assistant fit in one page of the listing.
AttachmentsFitPage == \A i \in 1..Len(assts) : Len(assts[i].files) <= PageLimit

\* The ids of the assistants of as that carry this name.
WithName(as, name) == {as[i].id : i \in {j \in 1..Len(as) : as[j].name = name}}

\* The record of the assistant a of as.
TheAsst(as, a) == as[CHOOSE i \in 1..Len(as) : as[i].id = a]

\* What a lookup of the name among the first page of assistants finds.
Lookup(name) ==
    LET hits == {i \in 1..Min(Len(assts), PageLimit) : assts[i].name = name}
    IN  IF hits = {} THEN NoId
        ELSE assts[CHOOSE i \in hits : \A j \in hits : i <= j].id

\* The filenames the index of assistant a holds.
IndexedNames(a) == {n \in FileNames : Indexed(a, n) # {}}

\* The positions of the calls of this kind in a log.
CallsOf(cs, kind) == {i \in 1..Len(cs) : cs[i].call = kind}

\* A forced replacement whose two deletes both failed.
BothDeletesFailed(cs) ==
    /\ \E i \in CallsOf(cs, "delete_file") : ~cs[i].ok
    /\ \E i \in CallsOf(cs, "delete_asst_file") : ~cs[i].ok

ListingCalls == {"list_assts", "list_asst_files", "list_files"}

\* The names of the calls of a log, in order.
CallNames(cs) == [i \in 1..Len(cs) |-> cs[i].call]

\* Every call of the log succeeded.
AllOk(cs) == \A i \in 1..Len(cs) : cs[i].ok

\* A step of upload_file_by_name for this assistant whose two listings
\* succeeded, so that the index was built.
UploadStep ==
    /\ ret'.op = "upload_file_by_name"
    /\ Len(calls') >= 2
    /\ calls'[1].ok /\ calls'[2].ok

\* ------------------------------------------------------------------ claims

\* C1: a call of upload_file_by_name with force = false whose file name is in
\* the remote file index issues no mutating call (only the two listings),
\* leaves the remote state unchanged, and returns (an id the index holds for
\* the name, false).
C1_NoForceExistingIsNoop ==
    [][(UploadStep /\ ~ret'.force /\ Indexed(asst_id, ret'.file) # {})
        => /\ remote' = remote
           /\ CallNames(calls') = <<"list_asst_files", "list_files">>
           /\ ret'.ok
           /\ ret'.id \in Indexed(asst_id, ret'.file)
           /\ ~ret'.uploaded]_vars

\* C1 happens: an unforced call found the name and returned its id.
C1_Witness ==
    /\ ret.op = "upload_file_by_name"
    /\ ~ret.force
    /\ ret.ok /\ ~ret.uploaded
    /\ ret.id \in LiveAttached(asst_id, ret.file)
    /\ Len(calls) = 2

\* C2: a call with force = true whose file name is in the index attempts the
\* delete of the old account file, then the delete of the old attachment,
\* then uploads; whatever the two deletes answered, once the upload and the
\* attach succeed it returns (the new file's id, true) and the new file is
\* live, carries the name and is attached.
C2_ForceReplaces ==
    [][(UploadStep /\ ret'.force /\ Indexed(asst_id, ret'.file) # {})
        => /\ Len(calls') >= 5
           /\ calls'[3].call = "delete_file"
           /\ calls'[3].arg \in Indexed(asst_id, ret'.file)
           /\ calls'[4].call = "delete_asst_file"
           /\ calls'[4].arg = calls'[3].arg
           /\ calls'[5].call = "create_file"
           /\ calls'[5].ok => /\ Len(calls') = 6
                              /\ calls'[6] = [call |-> "create_asst_file",
                                              arg |-> calls'[5].arg, ok |-> calls'[6].ok]
           /\ ~calls'[5].ok => Len(calls') = 5
           /\ (calls'[5].ok /\ calls'[6].ok)
                => /\ ret'.ok /\ ret'.uploaded
                   /\ ret'.id = nextFile
                   /\ ret'.id \in LiveAttachedIn(assts', files', asst_id, ret'.file)]_vars

\* C2 happens: both deletes of a forced replacement failed and the new file
\* was still uploaded and attached.
C2_Witness ==
    /\ ret.op = "upload_file_by_name"
    /\ ret.force
    /\ Len(calls) = 6
    /\ calls[3].call = "delete_file" /\ ~calls[3].ok
    /\ calls[4].call = "delete_asst_file" /\ ~calls[4].ok
    /\ ret.ok /\ ret.uploaded
    /\ ret.id \in LiveAttached(asst_id, ret.file)

\* C3: a call whose file name is not in the index, for either value of force,
\* issues no delete; it uploads once and, the upload done, attaches once; when
\* both succeed it returns (the new file's id, true), and the rebuilt index
\* holds that id for the name.
C3_AbsentUploads ==
    [][(UploadStep /\ Indexed(asst_id, ret'.file) = {})
        => /\ Len(calls') \in {3, 4}
           /\ calls'[3].call = "create_file"
           /\ calls'[3].ok <=> Len(calls') = 4
           /\ Len(calls') = 4 => calls'[4].call = "create_asst_file"
           /\ AllOk(calls')
                => /\ ret'.ok /\ ret'.uploaded
                   /\ ret'.id = nextFile
                   /\ IndexedIn(assts', files', asst_id, ret'.file) = {ret'.id}]_vars

\* C3 happens: a name that was not attached was uploaded and attached.
C3_Witness ==
    /\ ret.op = "upload_file_by_name"
    /\ ret.found = NoId
    /\ ret.ok /\ ret.uploaded
    /\ CallNames(calls) = <<"list_asst_files", "list_files", "create_file", "create_asst_file">>
    /\ Indexed(asst_id, ret.file) = {ret.id}

LoadOk == ret'.op = "load_or_create_asst" /\ ret'.ok

\* C5, as the specification states it: after every successful
\* load_or_create_asst at most one live assistant has the configured name.
C5_AtMostOneAsst ==
    (ret.op = "load_or_create_asst" /\ ret.ok)
        => Cardinality(WithName(assts, ret.name)) <= 1

\* C5, amended: a successful load_or_create_asst started where the account's
\* assistants fit in one page of the listing and at most one of them has the
\* configured name leaves exactly one live assistant with that name, the one
\* whose id it returns.
C5_AtMostOneAsstWithinPage ==
    [][(/\ LoadOk
        /\ Len(assts) <= PageLimit
        /\ Cardinality(WithName(assts, ret'.name)) <= 1)
        => WithName(assts', ret'.name) = {ret'.id}]_vars

\* C5 amended happens: a full page of assistants and the configured name found
\* among them, no second one created.
C5_Witness ==
    /\ ret.op = "load_or_create_asst" /\ ret.ok
    /\ ~ret.recreate
    /\ Len(assts) = PageLimit
    /\ Len(calls) = 1
    /\ WithName(assts, ret.name) = {ret.id}
    /\ assts[PageLimit].id = ret.id

\* A step of load_or_create_asst whose listing of the assistants succeeded.
LoadStep ==
    /\ ret'.op = "load_or_create_asst"
    /\ Len(calls') >= 1
    /\ calls'[1].ok

\* C6: when the lookup finds the name and recreate is false,
\* load_or_create_asst issues no create and no delete, leaves the remote state
\* as it was and returns the found id; when the lookup finds nothing it issues
\* one create and no delete and, the create done, returns the id of the new
\* assistant, which carries the configured name and model and no file.
C6_LoadOrCreate ==
    [][LoadStep
        => /\ (Lookup(ret'.name) # NoId /\ ~ret'.recreate)
                => /\ CallNames(calls') = <<"list_assts">>
                   /\ remote' = remote
                   /\ ret'.ok
                   /\ ret'.id = Lookup(ret'.name)
           /\ Lookup(ret'.name) = NoId
                => /\ CallNames(calls') = <<"list_assts", "create_asst">>
                   /\ calls'[2].ok
                        => /\ ret'.ok
                           /\ ret'.id = nextAsst
                           /\ ret'.id \notin WithName(assts, ret'.name)
                           /\ TheAsst(assts', ret'.id) =
                                [id |-> ret'.id, name |-> ret'.name,
                                 model |-> ret'.model, files |-> <<>>]
                           /\ Len(assts') = Len(assts) + 1
                           /\ \A i \in 1..Len(assts) : assts[i] \in Range(assts')
                           /\ files' = files
                   /\ ~calls'[2].ok => ~ret'.ok /\ remote' = remote]_vars

\* C6 happens: the name was found beside other assistants and nothing was
\* created or deleted.
C6_Witness ==
    /\ ret.op = "load_or_create_asst" /\ ret.ok
    /\ ~ret.recreate
    /\ CallNames(calls) = <<"list_assts">>
    /\ Len(assts) >= 2
    /\ ret.id \in WithName(assts, ret.name)

\* A step of load_or_create_asst with recreate whose lookup found the name.
RecreateStep == LoadStep /\ ret'.recreate /\ Lookup(ret'.name) # NoId

\* The new assistant of a recreate: a fresh id, the configured name and model,
\* no attached file, and the old assistant gone.
Replaced ==
    /\ Lookup(ret'.name) \notin WithName(assts', ret'.name)
    /\ ret'.id = nextAsst
    /\ ret'.id # Lookup(ret'.name)
    /\ TheAsst(assts', ret'.id) =
         [id |-> ret'.id, name |-> ret'.name, model |-> ret'.model, files |-> <<>>]

\* C7, as the specification states it: after a successful load_or_create_asst
\* with recreate that found the name, every file that was attached to the old
\* assistant has been deleted, the old assistant is gone, and a new assistant
\* with the same name and model, a new id and no attached file exists.
C7_RecreateDeletesEveryFile ==
    [][(RecreateStep /\ ret'.ok)
        => /\ \A n \in FileNames :
                \A f \in LiveAttached(Lookup(ret'.name), n) :
                    \A i \in 1..Len(files') : files'[i].id # f
           /\ Replaced]_vars

\* C7, amended: after such a call a delete was attempted for one indexed file
\* of every filename the old assistant's index held, and for no other file;
\* every file whose delete succeeded is gone, one whose delete failed may
\* remain in the account; the old assistant is gone and the new one is as
\* stated.
C7_RecreateAttemptsEveryFile ==
    [][(RecreateStep /\ ret'.ok)
        => /\ \A n \in IndexedNames(Lookup(ret'.name)) :
                \E i \in CallsOf(calls', "delete_file") :
                    calls'[i].arg \in Indexed(Lookup(ret'.name), n)
           /\ \A i \in CallsOf(calls', "delete_file") :
                /\ \E n \in FileNames : calls'[i].arg \in Indexed(Lookup(ret'.name), n)
                /\ calls'[i].ok => \A j \in 1..Len(files') : files'[j].id # calls'[i].arg
           /\ Cardinality(CallsOf(calls', "delete_file"))
                = Cardinality(IndexedNames(Lookup(ret'.name)))
           /\ Replaced]_vars

\* C7 amended happens: an assistant with two attached files was recreated, the
\* delete of one file failed, and that file is still in the account.
C7_Witness ==
    /\ ret.op = "load_or_create_asst" /\ ret.ok
    /\ ret.recreate /\ ret.found # NoId
    /\ Cardinality(CallsOf(calls, "delete_file")) = 2
    /\ \E i, j \in CallsOf(calls, "delete_file") :
        /\ ~calls[i].ok /\ calls[j].ok
        /\ \E k \in 1..Len(files) : files[k].id = calls[i].arg
        /\ \A k \in 1..Len(files) : files[k].id # calls[j].arg
    /\ TheAsst(assts, ret.id).files = <<>>

\* C8: in a recreate that found the name and built the index, one file delete
\* is attempted per indexed filename, failed or not, and all of them before
\* the one delete of the assistant; no attachment delete is ever issued; the
\* create is issued only after the delete of the assistant succeeded, and a
\* failed delete of the assistant ends the call with an error.
C8_DeleteOrder ==
    [][RecreateStep
        => /\ CallsOf(calls', "delete_asst_file") = {}
           /\ \A i \in CallsOf(calls', "delete_file"), j \in CallsOf(calls', "delete_asst") :
                i < j
           /\ \A i \in CallsOf(calls', "create_asst") :
                /\ i > 1
                /\ calls'[i - 1].call = "delete_asst"
                /\ calls'[i - 1].ok
           /\ \A j \in CallsOf(calls', "delete_asst") :
                /\ calls'[j].arg = Lookup(ret'.name)
                /\ ~calls'[j].ok => Len(calls') = j /\ ~ret'.ok
                /\ calls'[j].ok => Len(calls') = j + 1 /\ calls'[j + 1].call = "create_asst"
           /\ (Len(calls') >= 3 /\ calls'[2].ok /\ calls'[3].ok)
                => /\ CallsOf(calls', "delete_file")
                        = 4..(3 + Cardinality(IndexedNames(Lookup(ret'.name))))
                   /\ CallsOf(calls', "delete_asst")
                        = {4 + Cardinality(IndexedNames(Lookup(ret'.name)))}
           /\ ~(Len(calls') >= 3 /\ calls'[2].ok /\ calls'[3].ok)
                => /\ ~ret'.ok
                   /\ remote' = remote
                   /\ \A i \in 1..Len(calls') : calls'[i].call \in ListingCalls]_vars

\* C8 happens: the first file delete failed, the second file delete and the
\* delete of the assistant followed, and then the create.
C8_Witness ==
    /\ ret.op = "load_or_create_asst" /\ ret.ok
    /\ ret.recreate
    /\ CallNames(calls) = <<"list_assts", "list_asst_files", "list_files", "delete_file",
                            "delete_file", "delete_asst", "create_asst">>
    /\ ~calls[4].ok
    /\ calls[5].ok

\* An iteration of the loop of run_thread_msg whose retrieval was answered.
PollStep ==
    /\ pc = "poll"
    /\ Len(calls') > Len(calls)
    /\ calls'[Len(calls) + 1].call = "retrieve_run"
    /\ calls'[Len(calls) + 1].ok

\* C9: the poll that observes a status other than COMPLETED, QUEUED and
\* IN_PROGRESS ends run_thread_msg with the error "ERROR WHILE RUN: " followed
\* by the name of that very status; the retrieval is the last call of the
\* operation (no message is fetched, no further poll, no new run), and the
\* thread and the run are left as the retrieval found them.
C9_OtherStatusIsError ==
    [][(PollStep /\ Head(run.script) \notin {"completed", "queued", "in_progress"})
        => /\ pc' = "done"
           /\ ~ret'.ok
           /\ ret'.err = "ERROR WHILE RUN: "
           /\ ret'.status = DebugName(Head(run.script))
           /\ \A st \in Statuses \ {Head(run.script)} : ret'.status # DebugName(st)
           /\ Len(calls') = Len(calls) + 1
           /\ thread' = thread
           /\ run'.reply = run.reply]_vars

\* C9 happens: after two polls that waited, the third observed EXPIRED and the
\* call returned the error naming it.
C9_Witness ==
    /\ pc = "done"
    /\ ~ret.ok
    /\ ret.err = "ERROR WHILE RUN: "
    /\ ret.status = "Expired"
    /\ CallNames(calls) = <<"create_message", "create_run", "retrieve_run", "sleep",
                            "retrieve_run", "sleep", "retrieve_run">>

\* The texts a message of the model can start with.
Texts == Msgs \cup {c[1].value : c \in {d \in Contents : d # <<>> /\ d[1].type = "text"}}

\* The newest message of these starts with the text t.
StartsWith(msgs, t) ==
    /\ msgs # <<>>
    /\ msgs[1].content # <<>>
    /\ msgs[1].content[1] = TextBlock(t)

\* run_thread_msg is in its loop, the run's last status is COMPLETED, and the
\* newest message of the thread will then start with the text t: the
\* assistant's reply, or the user's message when the run posts none.
CompletesWith(t) ==
    /\ pc \in {"poll", "sleep"}
    /\ run.script[Len(run.script)] = "completed"
    /\ IF run.reply.post
       THEN run.reply.content # <<>> /\ run.reply.content[1] = TextBlock(t)
       ELSE StartsWith(thread, t)

\* run_thread_msg has returned the text t, the text of the newest message.
ReturnedText(t) ==
    /\ pc = "done"
    /\ ret.ok
    /\ ret.val = t
    /\ StartsWith(thread, t)

\* run_thread_msg has returned the error of a failed remote call.
RemoteFailed == pc = "done" /\ ~ret.ok /\ ret.err = "remote"

\* C10: a run_thread_msg whose run shows QUEUED or IN_PROGRESS finitely often
\* and then COMPLETED leaves its loop, and, unless a remote call failed,
\* returns the text of the newest message of the thread.
C10_CompletedRunReturns ==
    \A t \in Texts : CompletesWith(t) ~> (ReturnedText(t) \/ RemoteFailed)

\* C10 happens: QUEUED, IN_PROGRESS, COMPLETED were observed and "hello", the
\* reply, was returned.
C10_Witness ==
    /\ pc = "done"
    /\ ret.ok
    /\ ret.val = "hello"
    /\ Len(thread) = 2
    /\ Len(calls) = 8
    /\ calls[3].arg = "queued"
    /\ calls[5].arg = "in_progress"
    /\ calls[7].arg = "completed"
    /\ calls[8].call = "list_messages"

\* The statuses on which the loop of run_thread_msg goes on.
WaitStatuses == {"queued", "in_progress"}

\* The positions of the retrievals and of the sleeps in the log.
Retrievals == CallsOf(calls, "retrieve_run")

Sleeps == CallsOf(calls, "sleep")

RECURSIVE ObservedIn(_)
\* The statuses the answered retrievals of a log showed, in order.
ObservedIn(cs) ==
    IF cs = <<>> THEN <<>>
    ELSE (IF Head(cs).call = "retrieve_run" /\ Head(cs).ok THEN <<Head(cs).arg>> ELSE <<>>)
         \o ObservedIn(Tail(cs))

\* run_thread_msg in its loop on a run that shows QUEUED or IN_PROGRESS for good.
StuckRun ==
    /\ pc \in {"poll", "sleep"}
    /\ run.script[Len(run.script)] \in WaitStatuses

\* C11, the returns: a call of run_thread_msg that has returned without a
\* failed remote call has seen a status other than QUEUED and IN_PROGRESS.
C11_ReturnsOnOtherStatus ==
    (pc = "done" /\ ret.op = "run_thread_msg" /\ AllOk(calls))
        => \E i \in 1..Len(ObservedIn(calls)) : ObservedIn(calls)[i] \notin WaitStatuses

\* C11, the iterations: an answered retrieval that shows QUEUED or IN_PROGRESS
\* gives no result and is followed by the sleep, any other status ends the
\* call on that iteration, and the sleep is followed by the next retrieval.
C11_WaitsOnQueuedInProgress ==
    /\ PollStep => /\ (pc' = "sleep") <=> (Head(run.script) \in WaitStatuses)
                   /\ (pc' = "done") <=> (Head(run.script) \notin WaitStatuses)
                   /\ pc' = "sleep" => /\ ~ret'.ok /\ ret'.err = "" /\ ret'.val = ""
                                       /\ Len(calls') = Len(calls) + 1
    /\ pc = "sleep" => /\ pc' = "poll"
                       /\ CallNames(calls') = Append(CallNames(calls), "sleep")

\* C11: QUEUED and IN_PROGRESS, and only they, continue the loop of
\* run_thread_msg; the call does not return while it has seen nothing else and
\* no remote call failed; and a run that shows only those two is polled on and
\* on, up to the MaxPolls retrievals of the model, with no timeout.
C11_PollsWhileQueuedOrInProgress ==
    /\ []C11_ReturnsOnOtherStatus
    /\ [][C11_WaitsOnQueuedInProgress]_vars
    /\ StuckRun ~> (Cardinality(Retrievals) = MaxPolls \/ RemoteFailed)

\* C11 happens: MaxPolls retrievals all showed QUEUED or IN_PROGRESS and the
\* call is about to retrieve again.
C11_Witness ==
    /\ pc = "poll"
    /\ AllOk(calls)
    /\ Len(ObservedIn(calls)) = MaxPolls
    /\ \A i \in 1..MaxPolls : ObservedIn(calls)[i] \in WaitStatuses
    /\ Cardinality(Sleeps) = MaxPolls

\* C12, the log: every sleep lasts POLLING_DURATION_MS and directly follows an
\* answered retrieval that showed QUEUED or IN_PROGRESS; the first retrieval
\* follows the creation of the run and every other one a sleep; and a call
\* that returned after n + 1 answered retrievals saw n times QUEUED or
\* IN_PROGRESS, then one other status, and slept n times.
C12_CountsInLog ==
    ret.op = "run_thread_msg"
        => /\ \A i \in Sleeps :
                /\ calls[i].arg = POLLING_DURATION_MS
                /\ i > 1
                /\ calls[i - 1].call = "retrieve_run"
                /\ calls[i - 1].ok
                /\ calls[i - 1].arg \in WaitStatuses
           /\ \A i \in Retrievals :
                calls[i - 1].call = IF i = 3 THEN "create_run" ELSE "sleep"
           /\ (pc = "done" /\ ObservedIn(calls) # <<>>
                /\ Len(ObservedIn(calls)) = Cardinality(Retrievals))
                => /\ Cardinality(Sleeps) = Len(ObservedIn(calls)) - 1
                   /\ \A i \in 1..Len(ObservedIn(calls)) :
                        (ObservedIn(calls)[i] \in WaitStatuses) <=> (i < Len(ObservedIn(calls)))
           /\ (pc = "done" /\ AllOk(calls) /\ StartsWith(thread, "hello")
                /\ ObservedIn(calls) = <<"queued", "queued", "completed">>)
                => /\ ret.ok /\ ret.val = "hello"
                   /\ Cardinality(Sleeps) = 2

\* C12, the statuses: every answered retrieval shows the next status of the
\* run, one status per retrieval.
C12_OneStatusPerRetrieval ==
    PollStep => /\ calls'[Len(calls) + 1].arg = Head(run.script)
                /\ Len(run.script) > 1 => run'.script = Tail(run.script)
                /\ CallsOf(calls', "retrieve_run") = Retrievals \cup {Len(calls) + 1}

\* C12: for n statuses QUEUED or IN_PROGRESS followed by another status,
\* run_thread_msg retrieves n + 1 times and sleeps n times, POLLING_DURATION_MS
\* each, after each of the n and not after the last; QUEUED, QUEUED, COMPLETED
\* with the newest message "hello" returns "hello" after 2 sleeps.
C12_RetrievalsAndSleeps ==
    /\ []C12_CountsInLog
    /\ [][C12_OneStatusPerRetrieval]_vars

\* C12 happens: QUEUED, QUEUED, COMPLETED, two sleeps, "hello" returned.
C12_Witness ==
    /\ pc = "done"
    /\ ret.ok /\ ret.val = "hello"
    /\ ObservedIn(calls) = <<"queued", "queued", "completed">>
    /\ CallNames(calls) = <<"create_message", "create_run", "retrieve_run", "sleep",
                            "retrieve_run", "sleep", "retrieve_run", "list_messages">>

\* C13: get_first_thread_msg_content lists once, with limit 1; it returns the
\* text of the first content block of the newest message; on a thread without
\* messages it returns the error "No message found", on a newest message
\* whose first block is an image the error "Message image not supported yet",
\* on one without content the error "No message content found"; an error
\* carries no text.
C13_FirstBlockOfNewest ==
    ret.op = "get_first_thread_msg_content"
        => /\ Len(calls) = 1
           /\ calls[1].call = "list_messages"
           /\ calls[1].arg = "limit=1"
           /\ pc = "done"
           /\ ~ret.ok => ret.val = ""
           /\ ~calls[1].ok => ~ret.ok /\ ret.err = "remote"
           /\ calls[1].ok =>
                IF thread = <<>> THEN ~ret.ok /\ ret.err = "No message found"
                ELSE IF thread[1].content = <<>>
                     THEN ~ret.ok /\ ret.err = "No message content found"
                ELSE IF thread[1].content[1].type = "text"
                     THEN ret.ok /\ ret.val = thread[1].content[1].value
                ELSE ~ret.ok /\ ret.err = "Message image not supported yet"

\* C13 happens: the newest message starts with an image and has a text behind
\* it, an older message is a text, and the call returned the image error.
C13_Witness ==
    /\ ret.op = "get_first_thread_msg_content"
    /\ Len(thread) = 2
    /\ thread[1].content = <<ImageBlock, TextBlock("seen")>>
    /\ thread[2].content = <<TextBlock("hello")>>
    /\ ~ret.ok
    /\ ret.err = "Message image not supported yet"

\* C14, the log: a call creates its message first and only then, at most
\* once, the run; every retrieval comes after both and only when both
\* succeeded.
C14_OrderInLog ==
    ret.op = "run_thread_msg"
        => /\ CallsOf(calls, "create_message") = {1}
           /\ CallsOf(calls, "create_run") = IF calls[1].ok THEN {2} ELSE {}
           /\ \A i \in Retrievals : i > 2 /\ calls[1].ok /\ calls[2].ok
           /\ ~calls[1].ok => Len(calls) = 1 /\ pc = "done" /\ ~ret.ok
           /\ (Len(calls) >= 2 /\ ~calls[2].ok) => Len(calls) = 2 /\ pc = "done" /\ ~ret.ok

\* C14, the thread: the step that starts a call puts the user's message on
\* the thread if its creation succeeded, and starts a run only then.
C14_MessageThenRun ==
    (pc \in {"idle", "done"} /\ ret'.op = "run_thread_msg")
        => /\ thread' = IF calls'[1].ok THEN <<user_msg(ret'.msg)>> \o thread ELSE thread
           /\ run' # run => /\ calls'[1].ok
                            /\ Len(calls') = 2 /\ calls'[2].ok
                            /\ thread'[1].role = "user"
                            /\ pc' = "poll"
           /\ run' = run => pc' = "done" /\ ~ret'.ok

\* C14: run_thread_msg appends the user's message, then creates the run,
\* then polls; a failed append creates no run, a failed creation of the run
\* issues no poll; one message and at most one run per call.
C14_MessageRunPoll ==
    /\ []C14_OrderInLog
    /\ [][C14_MessageThenRun]_vars

\* C14 happens: the message was attached, the creation of the run failed, and
\* the call ended there.
C14_Witness ==
    /\ ret.op = "run_thread_msg"
    /\ pc = "done"
    /\ CallNames(calls) = <<"create_message", "create_run">>
    /\ calls[1].ok /\ ~calls[2].ok
    /\ Len(thread) = 1
    /\ run = NoRun

\* A step of load_or_create_conv: its result is the last one and no thread is
\* gone (a thread goes only when the service deletes it).
ConvStep ==
    /\ ret'.op = "load_or_create_conv"
    /\ threads \subseteq threads'

\* The calls of this name in a log of load_or_create_conv.
ConvCalls(log, name) == SelectSeq(log, LAMBDA e : e.call = name)

\* The record was read as a Conv in this log.
RecordLoaded(log) ==
    /\ Len(ConvCalls(log, "load_from_json")) = 1
    /\ ConvCalls(log, "load_from_json")[1].ok

\* The retrieval of the thread of the record failed: the thread is gone, or
\* the call did not get through.
RetrievalFailed(log) ==
    \/ conv_file.thread_id \notin threads
    \/ \E i \in 1..Len(log) : log[i].call = "retrieve_thread" /\ ~log[i].ok

\* C15: when load_or_create_conv reads the conversation record as a Conv and
\* the retrieval of its thread fails, the call returns the error "Connot find
\* thread_id", asks for that thread only, creates no thread, writes nothing and
\* leaves the record and the remote threads as they were.
C15_LostThreadIsHardError ==
    [][(ConvStep /\ RecordLoaded(calls') /\ RetrievalFailed(calls'))
        => /\ conv_file.kind = "json"
           /\ ~ret'.ok
           /\ ret'.err = "Connot find thread_id"
           /\ ret'.id = NoId
           /\ ConvCalls(calls', "retrieve_thread")
                = <<Call("retrieve_thread", conv_file.thread_id, FALSE)>>
           /\ ConvCalls(calls', "create_thread") = <<>>
           /\ ConvCalls(calls', "save_to_json") = <<>>
           /\ threads' = threads
           /\ nextThread' = nextThread
           /\ conv_file' = conv_file]_vars

\* C15 happens: the record names a thread that the service no longer has, and
\* the call failed with the record still naming it.
C15_Witness ==
    /\ ret.op = "load_or_create_conv"
    /\ ~ret.ok
    /\ ret.err = "Connot find thread_id"
    /\ conv_file.kind = "json"
    /\ conv_file.thread_id \notin threads
    /\ ConvCalls(calls, "retrieve_thread") # <<>>

\* A record that is the JSON of a Conv names a thread that was created.
RecordNamesCreatedThread ==
    conv_file.kind = "json" => conv_file.thread_id \in 1..(nextThread - 1)

\* load_or_create_conv(false) with no record: a call that succeeds has created
\* one thread, the next of the service, written its id to the record and
\* returned it; a call none of whose steps fails succeeds.
C16_NoRecordCreates ==
    (ConvStep /\ ~ret'.recreate /\ conv_file.kind = "absent")
        => /\ ConvCalls(calls', "retrieve_thread") = <<>>
           /\ Len(ConvCalls(calls', "create_thread")) <= 1
           /\ AllOk(calls') => ret'.ok
           /\ ret'.ok
                => /\ ConvCalls(calls', "create_thread")
                        = <<Call("create_thread", nextThread, TRUE)>>
                   /\ nextThread \notin threads
                   /\ threads' = threads \cup {nextThread}
                   /\ conv_file' = ConvJson(nextThread)
                   /\ ret'.id = nextThread
                   /\ conv' = nextThread

\* load_or_create_conv(false) with the record of a live thread, the record
\* read: no thread is created, the record and the threads stay as they were,
\* and the call returns the id of the record unless the retrieval did not get
\* through.
C16_RecordResumes ==
    (ConvStep /\ ~ret'.recreate /\ conv_file.kind = "json"
        /\ conv_file.thread_id \in threads /\ RecordLoaded(calls'))
        => /\ ConvCalls(calls', "create_thread") = <<>>
           /\ ConvCalls(calls', "save_to_json") = <<>>
           /\ threads' = threads
           /\ nextThread' = nextThread
           /\ conv_file' = conv_file
           /\ ret'.ok => ret'.id = conv_file.thread_id
           /\ AllOk(calls') => ret'.ok

ChatFailsStep ==
    /\ session \in {"prompt", "chat"}
    /\ ret'.op = "run_thread_msg"
    /\ pc' = "done"
    /\ ~ret'.ok

\* C17, as claimed: after a chat turn that returned an error the session
\* continues, start being at its prompt again.
C17_ChatErrorContinues ==
    [][ChatFailsStep => session' = "prompt"]_vars

\* C17, what start does: an error of init_form_dir or of load_or_create_conv
\* ends it, and so does every error of a chat turn: start returns the error,
\* no further input is read, and nothing happens after the exit.
C17_ChatErrorEndsSession ==
    /\ [][(session = "start" /\ ret'.op = "start" /\ ~ret'.ok)
            => session' = "exited"]_vars
    /\ [][ChatFailsStep => session' = "exited"]_vars
    /\ [][session # "exited"]_vars

\* The three kinds of chat error, each of which ended a session whose startup
\* had succeeded: the error is the last result.
C17_Witness ==
    /\ session = "exited"
    /\ conv # NoId
    /\ ret.op = "run_thread_msg"
    /\ ~ret.ok
    /\ ret.err = "ERROR WHILE RUN: "
    /\ ret.status = "Failed"

\* What the claim has a bundle hold for one file: the header with its path,
\* its lines, a blank separator.
BundleBlock(p, d) ==
    <<"LF", "// ==== file path: " \o PathStr(p), "LF", "LF">>
    \o WriteLines(LinesFrom(d[p], <<>>))
    \o <<"LF", "LF", "LF">>

\* The blocks of the files of a list, in its order.
RECURSIVE BundleOf(_, _)
BundleOf(fs, d) ==
    IF fs = <<>> THEN <<>>
    ELSE BundleBlock(Head(fs), d) \o BundleOf(Tail(fs), d)

\* C18: a build that succeeds leaves in the destination exactly the blocks of
\* its files in the order given, whatever the destination held before (it is
\* truncated), and changes no other file; a build that repeats the successful
\* build before it leaves the destination byte for byte as it was.
C18_BundleIsDeterministic ==
    [][(ret'.op = "bundle_to_file" /\ ret'.ok)
        => /\ DOMAIN disk' = DOMAIN disk \cup {ret'.dst}
           /\ \A p \in DOMAIN disk \ {ret'.dst} : disk'[p] = disk[p]
           /\ disk'[ret'.dst] = BundleOf(ret'.files, disk)
           /\ ret'.again => /\ ret'.dst \in DOMAIN disk
                            /\ disk'[ret'.dst] = disk[ret'.dst]]_vars

\* C18 happens: two files, one of them with a carriage return before its line
\* feed, were bundled twice over a destination that held something else
\* first.
C18_Witness ==
    /\ ret.op = "bundle_to_file"
    /\ ret.ok
    /\ ret.again
    /\ ret.files = <<DocNotes, SrcMain>>
    /\ disk[SrcMain] = <<"CR", "LF">>
    /\ disk[DocNotes] = <<"a">>
    /\ disk[ret.dst] = BundleOf(ret.files, disk)
    /\ Len(disk[ret.dst]) = 17

\* A step of upload_files.
FilesStep == ret'.op = "upload_files"

\* The source files a bundle of the config matches on the disk.
Matched(b) ==
    {p \in DOMAIN disk :
        p.dir = b.src_dir /\ \E i \in 1..Len(b.src_globs) : p.ext = b.src_globs[i].ext}

\* The bundle is to be skipped: its directory is not there, or nothing in it
\* matches.
Skipped(b) == b.src_dir \notin SrcDirs \/ Matched(b) = {}

\* The positions of the bundles of a config that are not to be skipped, in
\* the order of the config.
Kept(bundles) ==
    SelectSeq([i \in 1..Len(bundles) |-> i], LAMBDA i : ~Skipped(bundles[i]))

\* The bundles rebuilt according to a log, in its order.
Rebuilt(log) ==
    [j \in 1..Len(ConvCalls(log, "bundle_to_file")) |->
        ConvCalls(log, "bundle_to_file")[j].arg]

IsPrefix(s, t) == Len(s) <= Len(t) /\ s = SubSeq(t, 1, Len(s))

\* the calls to the service
RemoteCalls ==
    {"list_asst_files", "list_files", "delete_file", "delete_asst_file",
     "create_file", "create_asst_file"}

\* The bundle file of a bundle of the last call of upload_files.
BundleFileOf(rt, b) == BundleFile(rt.name, b.bundle_name, rt.asst, b.dst_ext)

\* C19: upload_files rebuilds the bundles that are not to be skipped, in the
\* order of the config and each once (on an error, the first of them); each
\* rebuild that succeeds is followed at once by one reconciliation, and no
\* call goes to the service before the first rebuild or for a bundle that is
\* skipped, whose bundle file is not written.
C19_SkipsEmptyBundles ==
    [][FilesStep
        => /\ IsPrefix(Rebuilt(calls'), Kept(ret'.bundles))
           /\ ret'.ok => Rebuilt(calls') = Kept(ret'.bundles)
           /\ \A j \in 1..Len(calls') :
                /\ calls'[j].call = "list_asst_files"
                     => j > 1 /\ calls'[j - 1].call = "bundle_to_file" /\ calls'[j - 1].ok
                /\ (calls'[j].call = "bundle_to_file" /\ calls'[j].ok)
                     => j < Len(calls') /\ calls'[j + 1].call = "list_asst_files"
                /\ calls'[j].call \in RemoteCalls
                     => \E k \in 1..(j - 1) : calls'[k].call = "bundle_to_file"
           /\ ret'.ok
                => \A i \in 1..Len(ret'.bundles) :
                    (/\ ~Skipped(ret'.bundles[i])
                     /\ \A k \in (i + 1)..Len(ret'.bundles) :
                            BundleFileOf(ret', ret'.bundles[k])
                                = BundleFileOf(ret', ret'.bundles[i])
                                => Skipped(ret'.bundles[k]))
                        => /\ BundleFileOf(ret', ret'.bundles[i]) \in DOMAIN disk'
                           /\ disk'[BundleFileOf(ret', ret'.bundles[i])]
                                = BundleOf(AsSeq(Matched(ret'.bundles[i])), disk)
           /\ Rebuilt(calls') = <<>> => remote' = remote
           /\ \A i \in 1..Len(ret'.bundles) :
                (/\ Skipped(ret'.bundles[i])
                 /\ \A k \in 1..Len(ret'.bundles) :
                        BundleFileOf(ret', ret'.bundles[k]) = BundleFileOf(ret', ret'.bundles[i])
                            => Skipped(ret'.bundles[k]))
                    => \/ BundleFileOf(ret', ret'.bundles[i]) \notin DOMAIN disk'
                       \/ /\ BundleFileOf(ret', ret'.bundles[i]) \in DOMAIN disk
                          /\ disk'[BundleFileOf(ret', ret'.bundles[i])]
                                = disk[BundleFileOf(ret', ret'.bundles[i])]]_vars

\* C19 happens: of three bundles the first has no directory and the second
\* matches nothing; only the third was rebuilt and uploaded, and the first
\* two have no bundle file.
C19_Witness ==
    /\ ret.op = "upload_files"
    /\ ret.ok
    /\ ret.bundles = <<LibBundle, TomlBundle, SrcBundle>>
    /\ Rebuilt(calls) = <<3>>
    /\ ret.num = 1
    /\ BundleFileOf(ret, LibBundle) \notin DOMAIN disk
    /\ BundleFileOf(ret, TomlBundle) \notin DOMAIN disk
    /\ BundleFileOf(ret, SrcBundle) \in DOMAIN disk
    /\ \E i \in 1..Len(files) : files[i].filename = FileName(BundleFileOf(ret, SrcBundle))

\* The files a step removes from the disk.
Deleted == DOMAIN disk \ DOMAIN disk'

\* The left-overs of the hidden directory for the current assistant: its
\* *.rs and *.md files whose names do not hold the assistant's id.
Stale ==
    {p \in DOMAIN disk :
        p.dir = DataFilesDir /\ p.ext \in {"rs", "md"} /\ ~Mentions(p, asst_id)}

\* C20: upload_files deletes only left-overs of the hidden directory, never a
\* file named with the current assistant's id and never a file outside the
\* hidden directory; every delete comes before the first rebuild, a failed
\* delete ends the call with nothing rebuilt and nothing uploaded, and a call
\* that succeeds has deleted every left-over.  The safeguard never fires: a
\* candidate is always under the hidden directory.
C20_PurgeOnlyStale ==
    [][FilesStep
        => /\ Deleted \subseteq Stale
           /\ \A p \in Deleted : p.dir = DataFilesDir /\ ~Mentions(p, asst_id)
           /\ \A p \in DOMAIN disk : Mentions(p, asst_id) => p \in DOMAIN disk'
           /\ \A p \in DOMAIN disk : p.dir # DataFilesDir
                => p \in DOMAIN disk' /\ disk'[p] = disk[p]
           /\ \A j, k \in 1..Len(calls') :
                (calls'[j].call = "remove_file" /\ calls'[k].call = "bundle_to_file")
                    => j < k
           /\ Cardinality(Deleted)
                = Cardinality({j \in 1..Len(calls') :
                                calls'[j].call = "remove_file" /\ calls'[j].ok})
           /\ (\E j \in 1..Len(calls') : calls'[j].call = "remove_file" /\ ~calls'[j].ok)
                => /\ ~ret'.ok
                   /\ Rebuilt(calls') = <<>>
                   /\ remote' = remote
           /\ ret'.err # "Error should no delete"
           /\ (ret'.ok \/ Rebuilt(calls') # <<>>) => Deleted = Stale]_vars

\* C20 happens: under the second assistant the bundle file of the first was
\* deleted, and then the bundle of the second was built.
C20_Witness ==
    /\ ret.op = "upload_files"
    /\ ret.ok
    /\ ret.asst = 2
    /\ CallNames(ConvCalls(calls, "remove_file")) = <<"remove_file">>
    /\ calls[2] = Call("remove_file", 1, TRUE)
    /\ KeptNotes \notin DOMAIN disk
    /\ BundleFile(ret.name, "src", 1, "rs") \notin DOMAIN disk
    /\ BundleFile(ret.name, "src", 2, "rs") \in DOMAIN disk
    /\ Rebuilt(calls) # <<>>

\* The upload or the attach of this log failed.
CreationFailed(cs) ==
    \E i \in CallsOf(cs, "create_file") \cup CallsOf(cs, "create_asst_file") : ~cs[i].ok

\* The ids of the account files.
LiveFiles(fs) == {fs[i].id : i \in 1..Len(fs)}

\* The ids attached to assistant a among the assistants as.
AttachedIn(as, a) ==
    UNION {Range(as[i].files) : i \in {j \in 1..Len(as) : as[j].id = a}}

\* The old file of a replacement went by the deletes that succeeded and by
\* nothing else: the account file by delete_file, the attachment by
\* delete_asst_file.
DeletesStand(cs) ==
    /\ \A i \in CallsOf(cs, "delete_file") :
            cs[i].arg \in LiveFiles(files')
                <=> (cs[i].arg \in LiveFiles(files) /\ ~cs[i].ok)
    /\ \A i \in CallsOf(cs, "delete_asst_file") :
            cs[i].arg \in AttachedIn(assts', asst_id)
                <=> (cs[i].arg \in AttachedIn(assts, asst_id) /\ ~cs[i].ok)

\* C21: a call of upload_file_by_name whose upload or attach fails returns an
\* error, with no file id and nothing uploaded; the failed call is the last of
\* the log and neither the upload nor the attach is called twice; what the
\* deletes removed stays removed, a file uploaded before a failed attach stays
\* in the account unattached, and no new file is attached under the name, so
\* the name is left with no attached file when a delete succeeded.
C21_CreationFailureIsFatal ==
    [][(UploadStep /\ CreationFailed(calls'))
        => /\ ~ret'.ok
           /\ ret'.id = NoId
           /\ ~ret'.uploaded
           /\ ~calls'[Len(calls')].ok
           /\ AllOk(SubSeq(SelectSeq(calls', LAMBDA e : e.call \in {"create_file",
                                                                    "create_asst_file"}),
                           1, Cardinality(CallsOf(calls', "create_file"))
                              + Cardinality(CallsOf(calls', "create_asst_file")) - 1))
           /\ Cardinality(CallsOf(calls', "create_file")) = 1
           /\ Cardinality(CallsOf(calls', "create_asst_file")) <= 1
           /\ DeletesStand(calls')
           /\ AttachedIn(assts', asst_id) \subseteq AttachedIn(assts, asst_id)
           /\ LiveFiles(files') \ LiveFiles(files)
                = {calls'[i].arg : i \in {j \in CallsOf(calls', "create_file") : calls'[j].ok}}
           /\ IndexedIn(assts', files', asst_id, ret'.file)
                \subseteq Indexed(asst_id, ret'.file)
           /\ (\E i \in CallsOf(calls', "delete_file") \cup CallsOf(calls', "delete_asst_file") :
                    calls'[i].ok /\ calls'[i].arg \in Indexed(asst_id, ret'.file))
                => LiveAttachedIn(assts', files', asst_id, ret'.file)
                        \subseteq LiveAttached(asst_id, ret'.file) \ {calls'[3].arg}]_vars

\* C21 happens: a forced replacement deleted and detached the old file, its
\* attach failed, and the name is left with no attached file while the new
\* file sits in the account.
C21_Witness ==
    /\ ret.op = "upload_file_by_name"
    /\ ret.force
    /\ ret.found # NoId
    /\ ~ret.ok
    /\ CallNames(calls) = <<"list_asst_files", "list_files", "delete_file",
                            "delete_asst_file", "create_file", "create_asst_file">>
    /\ calls[3].ok /\ calls[4].ok /\ calls[5].ok /\ ~calls[6].ok
    /\ LiveAttached(asst_id, ret.file) = {}
    /\ calls[5].arg \in LiveFiles(files)
    /\ calls[5].arg \notin AttachedIn(assts, asst_id)

\* the calls that change the account
MutatingCalls == {"delete_file", "delete_asst_file", "create_file", "create_asst_file"}

\* The bundle whose reconciliation made the j-th call of a log of
\* upload_files: the one rebuilt last before it (NoId: none).
Owner(log, j) ==
    LET ks == {k \in 1..(j - 1) : log[k].call = "bundle_to_file"}
    IN  IF ks = {} THEN NoId
        ELSE log[CHOOSE k \in ks : \A l \in ks : l <= k].arg

\* Bundle k of the call rt comes after a bundle of the same bundle file that
\* is not skipped.
Shadowed(rt, k) ==
    \E i \in 1..(k - 1) :
        /\ ~Skipped(rt.bundles[i])
        /\ BundleFileOf(rt, rt.bundles[i]) = BundleFileOf(rt, rt.bundles[k])

\* No call of the reconciliation of a bundle that comes second under its
\* bundle file changes the account.
SecondLeavesSlot ==
    \A j \in 1..Len(calls') :
        (calls'[j].call \in MutatingCalls /\ Owner(calls', j) # NoId)
            => ~Shadowed(ret', Owner(calls', j))

ConvRecreateStep ==
    /\ ConvStep
    /\ ret'.recreate
    /\ conv_file.kind # "absent"
    /\ calls'[1].ok

\* What follows the removal of the record: no load comes before it, the
\* thread of the record is not asked for, one thread is created, and a call
\* that succeeds has written the new thread's id to the record and returned it.
NewConversation ==
    /\ ConvCalls(calls', "load_from_json") = <<Call("load_from_json", NoId, FALSE)>>
    /\ CallNames(SubSeq(calls', 1, 3)) = <<"ensure_dir", "remove_file", "load_from_json">>
    /\ ConvCalls(calls', "retrieve_thread") = <<>>
    /\ Len(ConvCalls(calls', "create_thread")) = 1
    /\ AllOk(SubSeq(calls', 4, Len(calls'))) => ret'.ok
    /\ ret'.ok
        => /\ ConvCalls(calls', "create_thread")
                = <<Call("create_thread", nextThread, TRUE)>>
           /\ threads' = threads \cup {nextThread}
           /\ nextThread \notin threads
           /\ conv_file' = ConvJson(nextThread)
           /\ ret'.id = nextThread
           /\ conv' = nextThread

\* C23, as the specification states it: load_or_create_conv(true) with a
\* record on the disk deletes the record before any load or remote call,
\* does not ask for the old thread, creates a thread, and on success the
\* record and the returned Conv hold the new thread's id.
C23_RecreateMakesNewThread ==
    [][ConvRecreateStep
        => /\ calls'[2] = Call("remove_file", conv_file.thread_id, TRUE)
           /\ NewConversation]_vars

\* What the code does: the removal is attempted first and its failure is
\* dropped.  When it succeeds the call goes on as the claim says; when it
\* fails the record is still there and is loaded as without recreate: the
\* record of a Conv has its old thread asked for, and the call returns the
\* old thread's id with the record unchanged, or the error of a lost thread.
C23_RecreateUnlessRemovalFails ==
    [][ConvRecreateStep
        => /\ calls'[2].call = "remove_file"
           /\ calls'[2].arg = conv_file.thread_id
           /\ calls'[2].ok => NewConversation
           /\ (~calls'[2].ok /\ RecordLoaded(calls'))
                => /\ ConvCalls(calls', "retrieve_thread") # <<>>
                   /\ ConvCalls(calls', "retrieve_thread")[1].arg = conv_file.thread_id
                   /\ ConvCalls(calls', "create_thread") = <<>>
                   /\ conv_file' = conv_file
                   /\ threads' = threads
                   /\ ret'.ok => ret'.id = conv_file.thread_id]_vars

\* C23 happens: with recreate = true the record of a live thread was removed,
\* a second thread was created and recorded, and the old thread is still
\* there.
C23_Witness ==
    /\ ret.op = "load_or_create_conv"
    /\ ret.recreate
    /\ ret.ok
    /\ CallNames(calls) = <<"ensure_dir", "remove_file", "load_from_json",
                            "create_thread", "save_to_json">>
    /\ calls[2].ok
    /\ calls[2].arg # NoId
    /\ calls[2].arg \in threads
    /\ ret.id # calls[2].arg
    /\ conv_file = ConvJson(ret.id)
    /\ conv = ret.id

\* The assistant a step of upload_file_by_name or of delete works on: the
\* session's, or the one a recreate found (NoId: no delete is called).
Operated ==
    IF ret'.op = "upload_file_by_name" THEN asst_id
    ELSE IF ret'.op = "load_or_create_asst" /\ ret'.recreate THEN ret'.found
    ELSE NoId

\* The ids the index of assistant a holds, under any filename.
IndexedIds(a) == UNION {Indexed(a, n) : n \in FileNames}

\* The filenames some live file attached to another assistant carries.
NamesOfOthers(a) ==
    {n \in FileNames : \E i \in 1..Len(assts) : assts[i].id # a /\ LiveAttached(assts[i].id, n) # {}}

\* C24: a step of upload_file_by_name or of load_or_create_asst (and so of
\* delete) calls delete_file and delete_asst_file only for files the index of
\* its assistant holds; every account file that goes was in that index, every
\* other assistant keeps its record and its attachments, and every live file
\* attached to another assistant, of whatever filename, is live and attached
\* to it afterwards.
C24_FrameOfOtherFiles ==
    [][(ret'.op \in {"upload_file_by_name", "load_or_create_asst"})
        => /\ \A i \in CallsOf(calls', "delete_file") \cup CallsOf(calls', "delete_asst_file") :
                calls'[i].arg \in IndexedIds(Operated)
           /\ LiveFiles(files) \ LiveFiles(files') \subseteq IndexedIds(Operated)
           /\ \A f \in LiveFiles(files) :
                f \notin AttachedIn(assts, Operated) => f \in LiveFiles(files')
           /\ \A i \in 1..Len(assts) :
                assts[i].id # Operated
                    => /\ \E j \in 1..Len(assts') : assts'[j] = assts[i]
                       /\ \A n \in FileNames :
                            LiveAttachedIn(assts', files', assts[i].id, n)
                                = LiveAttached(assts[i].id, n)]_vars

\* C24 happens: a forced upload for one assistant of a name that another
\* assistant holds a live file of: that file was not taken for the old one,
\* no delete was called, and both assistants hold their own file of the name.
C24_Witness ==
    /\ ret.op = "upload_file_by_name"
    /\ ret.force
    /\ ret.ok /\ ret.uploaded
    /\ ret.found = NoId
    /\ ret.file \in NamesOfOthers(asst_id)
    /\ CallsOf(calls, "delete_file") = {}
    /\ LiveAttached(asst_id, ret.file) = {ret.id}
    /\ \E i \in 1..Len(assts) :
            /\ assts[i].id # asst_id
            /\ LiveAttached(assts[i].id, ret.file) # {}
            /\ ret.id \notin LiveAttached(assts[i].id, ret.file)

\* The calls of this name that the reconciliation of bundle k made.
SegCalls(k, name) == {j \in CallsOf(calls', name) : Owner(calls', j) = k}

\* The bundles whose rebuild succeeded in the step.
RebuiltOk ==
    {calls'[j].arg : j \in {i \in CallsOf(calls', "bundle_to_file") : calls'[i].ok}}

\* The bundle file of bundle k existed before it was rebuilt: it was on the
\* disk before the call, or an earlier bundle of the call wrote it.
Existed(k) ==
    BundleFileOf(ret', ret'.bundles[k]) \in DOMAIN disk \/ Shadowed(ret', k)

\* The name of the bundle file of bundle k was in the index of the assistant
\* when it was reconciled: a live attached file carried it before the call, or
\* an earlier bundle of the call uploaded it.
InIndex(k) ==
    Indexed(asst_id, FileName(BundleFileOf(ret', ret'.bundles[k]))) # {} \/ Shadowed(ret', k)

\* recreate || !bundle_file.exists(), as the claim has it
ForceOf(k) == ret'.recreate \/ ~Existed(k)

LoadFailed(log) ==
    /\ Len(ConvCalls(log, "load_from_json")) = 1
    /\ ~ConvCalls(log, "load_from_json")[1].ok

\* C26: when load_or_create_conv cannot read the record as a Conv, whatever
\* the cause, it asks for no thread and creates one; the call fails only if
\* the creation or the write of the record fails, and when it succeeds the
\* record holds the new thread's id, which is returned.  The error "Connot
\* find thread_id" is returned exactly when the record was read and the
\* retrieval of its thread failed.
C26_LoadFailureIsNoRecord ==
    [][ConvStep
        => /\ LoadFailed(calls')
                => /\ ConvCalls(calls', "retrieve_thread") = <<>>
                   /\ Len(ConvCalls(calls', "create_thread")) = 1
                   /\ calls'[Len(calls')].call \in {"create_thread", "save_to_json"}
                   /\ ret'.ok <=> (\A j \in 1..Len(calls') :
                                      calls'[j].call \in {"create_thread", "save_to_json"}
                                          => calls'[j].ok)
                   /\ ret'.err \in {"", "remote", "save_to_json"}
                   /\ ret'.ok
                        => /\ CallNames(SubSeq(calls', Len(calls') - 1, Len(calls')))
                                = <<"create_thread", "save_to_json">>
                           /\ threads' = threads \cup {nextThread}
                           /\ conv_file' = ConvJson(nextThread)
                           /\ ret'.id = nextThread
                           /\ nextThread \notin threads
           /\ ret'.err = "Connot find thread_id"
                <=> (RecordLoaded(calls') /\ RetrievalFailed(calls'))]_vars

\* C26 happens: a record that names a thread could not be read, and without
\* recreate the call created another thread and overwrote the record with
\* its id.
C26_Witness ==
    /\ ret.op = "load_or_create_conv"
    /\ ~ret.recreate
    /\ ret.ok
    /\ CallNames(calls) = <<"ensure_dir", "load_from_json", "create_thread", "save_to_json">>
    /\ ~calls[2].ok
    /\ calls[2].arg # NoId
    /\ ret.id # calls[2].arg
    /\ conv_file = ConvJson(ret.id)

====
